---- MODULE Spec2Model ----
(***************************************************************************)
(* Command router and interactive prompt engine of the Telegram service    *)
(* (venantvr/telegram/notification.py), with the History Store it reads    *)
(* and writes (src/venantvr/telegram/history.py), the callback             *)
(* mini-protocol parser (venantvr/telegram/service.py) and the handler     *)
(* dispatch (venantvr/telegram/handler.py).                                *)
(*                                                                         *)
(* Python strings are sequences of one-character strings, so that split,   *)
(* the regular expression of parse_command and int() are computed, not     *)
(* assumed.  Rows of the interactions table are kept in insertion order;   *)
(* the timestamp of a row is its position.                                 *)
(***************************************************************************)
EXTENDS Integers, Sequences, FiniteSets, TLC

VARIABLES
    history,   \* rows of the interactions table, oldest first
    last,      \* the update the router processed last and what it did with it:
               \* the chat's active prompt when the update was dequeued (before),
               \* the payloads put on the outgoing queue (sent), the command
               \* methods called (calls), whether an exception escaped (exc)
    inbox,     \* the incoming queue and the worker thread that consumes it
    client,    \* one call of TelegramClient.send_message: the attempts made,
               \* the sleeps taken and how the call ended
    sender,    \* the MessageSender: its outgoing queue, its worker thread,
               \* the thread that stops it, and the service around it
    receiver,  \* the MessageReceiver: its worker thread, its stop event, its
               \* last_update_id and the poll it made last
    workers,   \* per component, the worker threads it has spawned and its
               \* stop signal
    registry,  \* COMMAND_REGISTRY as filled by the decorator, and the
               \* registration attempted last
    codec,     \* callback data encoded from a verb, a token and arguments,
               \* and what parse_command makes of it
    base       \* the thread-owning BaseService: its outgoing queue, its sender
               \* and receiver threads, and the thread that stops it

vars == <<history, last, inbox, client, sender, receiver, workers, registry, codec,
          base>>

\* Bounds of the exploration.
MaxLog == 3
MaxIncoming == 3
MaxRetriesBound == 4
MaxPayloads == 2
MaxPolls == 3
MaxThreads == 3

-----------------------------------------------------------------------------
(* Characters and strings *)

Digits == {"0", "1", "2", "3", "4", "5", "6", "7", "8", "9"}
WordChars == Digits \cup {"_", "a", "c", "e", "f", "g", "h", "i", "k", "l", "m",
                           "n", "o", "p", "r", "s", "t", "u", "d", "A", "B"}
Whitespace == {" ", "NL"}

DigitVal == [d \in Digits |->
    CASE d = "0" -> 0 [] d = "1" -> 1 [] d = "2" -> 2 [] d = "3" -> 3
      [] d = "4" -> 4 [] d = "5" -> 5 [] d = "6" -> 6 [] d = "7" -> 7
      [] d = "8" -> 8 [] d = "9" -> 9]

StartsWith(s, p) == Len(s) >= Len(p) /\ SubSeq(s, 1, Len(p)) = p

\* Index of the first occurrence of character c in s, or Len(s) + 1.
RECURSIVE IndexOf(_, _, _)
IndexOf(s, c, i) ==
    IF i > Len(s) THEN Len(s) + 1
    ELSE IF s[i] = c THEN i ELSE IndexOf(s, c, i + 1)

\* str.split(sep): always at least one piece, empty pieces are kept.
RECURSIVE Split(_, _)
Split(s, sep) ==
    LET i == IndexOf(s, sep, 1) IN
    IF i > Len(s) THEN <<s>>
    ELSE <<SubSeq(s, 1, i - 1)>> \o Split(SubSeq(s, i + 1, Len(s)), sep)

\* str.strip() as int() applies it.
RECURSIVE Strip(_)
Strip(s) ==
    IF s = <<>> THEN s
    ELSE IF s[1] \in Whitespace THEN Strip(Tail(s))
    ELSE IF s[Len(s)] \in Whitespace THEN Strip(SubSeq(s, 1, Len(s) - 1))
    ELSE s

RECURSIVE DigitsValue(_, _)
DigitsValue(s, acc) ==
    IF s = <<>> THEN acc ELSE DigitsValue(Tail(s), 10 * acc + DigitVal[s[1]])

\* int(s) over the alphabet above: ValueError unless, once stripped, s is a
\* non-empty run of digits.
IntOk(s) ==
    LET t == Strip(s) IN t # <<>> /\ \A i \in 1..Len(t) : t[i] \in Digits

IntOf(s) == DigitsValue(Strip(s), 0)

-----------------------------------------------------------------------------
(* Identifiers *)

S_help == <<"/", "h", "e", "l", "p">>
S_menu == <<"/", "m", "e", "n", "u">>
S_none == <<"/", "n", "o", "n", "e">>
S_greet == <<"/", "g">>
S_ping == <<"/", "p">>
S_main == <<"/", "m">>
S_unknown == <<"/", "u">>
S_orphan == <<"/", "o">>
S_date == <<"/", "d">>

S_ask == <<"a", "s", "k">>
S_respond == <<"r", "e", "s", "p", "o", "n", "d">>
S_cancel == <<"c", "a", "n", "c", "e", "l">>
S_confirm == <<"c", "o", "n", "f", "i", "r", "m">>


VerbChars == [v \in {"ask", "respond", "cancel", "confirm"} |->
    CASE v = "ask" -> S_ask [] v = "respond" -> S_respond
      [] v = "cancel" -> S_cancel [] v = "confirm" -> S_confirm]

Verbs == DOMAIN VerbChars

-----------------------------------------------------------------------------
(* Command registry, as the @command decorator fills it at import time *)

\* One command with two questions (name: str, age: int), one without
\* questions, both under the menu /m; one command without questions whose
\* method belongs to a handler that is not loaded; and one command with one
\* question (day, without coercer) that no menu of a handler lists.
COMMAND_REGISTRY ==
    (S_greet :> [action |-> "greet", menu |-> S_main,
                 asks |-> <<"name?", "age?">>,
                 kwargs_types |-> [a \in {"name", "age"} |->
                                      IF a = "age" THEN "int" ELSE "str"],
                 arg_names |-> <<"name", "age">>])
    @@
    (S_ping :> [action |-> "ping", menu |-> S_main,
                asks |-> <<>>,
                kwargs_types |-> [a \in {} |-> "str"],
                arg_names |-> <<>>])
    @@
    (S_orphan :> [action |-> "orphan", menu |-> S_none,
                  asks |-> <<>>,
                  kwargs_types |-> [a \in {} |-> "str"],
                  arg_names |-> <<>>])
    @@
    (S_date :> [action |-> "date", menu |-> S_none,
                asks |-> <<"day?">>,
                kwargs_types |-> [a \in {} |-> "str"],
                arg_names |-> <<"day">>])

\* COMMAND_REGISTRY.get(name, {}) is truthy exactly for a registered name.
IsRegistered(name) == name \in DOMAIN COMMAND_REGISTRY

\* command_details.get("asks", []) of COMMAND_REGISTRY.get(name, {}).
Asks(name) == IF IsRegistered(name) THEN COMMAND_REGISTRY[name].asks ELSE <<>>

\* The handlers loaded into the service: the bound methods each instance has
\* and its command_actions table (menu -> commands), in dict order.
Handlers ==
    << [methods |-> {"greet", "date"},
        command_actions |-> << [menu |-> S_main, commands |-> <<S_greet>>] >>],
       [methods |-> {"ping"},
        command_actions |-> << [menu |-> S_main, commands |-> <<S_ping>>],
                               [menu |-> S_none, commands |-> <<>>] >>] >>

-----------------------------------------------------------------------------
(* Dynamic enums *)

NoneEnum == [value |-> <<>>, parent_enum |-> "None"]

CommandValues == DOMAIN COMMAND_REGISTRY
MenuValues == {COMMAND_REGISTRY[c].menu : c \in DOMAIN COMMAND_REGISTRY} \cup {S_none}

\* Command.from_value / Menu.from_value: the member of that enum with this
\* value; NoneEnum stands for the ValueError of a value the enum does not have.
CommandFromValue(value) ==
    IF value \in CommandValues
    THEN [value |-> value, parent_enum |-> "Command"] ELSE NoneEnum

MenuFromValue(value) ==
    IF value \in MenuValues
    THEN [value |-> value, parent_enum |-> "Menu"] ELSE NoneEnum

\* Variant of _cast_to_enum over enums whose from_value creates the member
\* on first use: every value is a Command.
CastToEnum_CreateOnFirstUse(value) ==
    [value |-> value, parent_enum |-> "Command"]

\* _cast_to_enum(value, [Command, Menu]): first enum that has the value.
CastToEnum(value) ==
    IF CommandFromValue(value) # NoneEnum THEN CommandFromValue(value)
    ELSE IF MenuFromValue(value) # NoneEnum THEN MenuFromValue(value)
    ELSE NoneEnum

-----------------------------------------------------------------------------
(* Callback mini-protocol: parse_command *)

\* Length of the run of \w characters of s that starts at index i.
RECURSIVE WordRun(_, _)
WordRun(s, i) ==
    IF i <= Len(s) /\ s[i] \in WordChars THEN 1 + WordRun(s, i + 1) ELSE 0

NoNewline(s) == \A i \in 1..Len(s) : s[i] # "NL"

\* The verb of group 1, ((?:ask|respond|cancel|confirm):)?, or "None".
MatchedVerb(data) ==
    IF \E v \in Verbs : StartsWith(data, VerbChars[v] \o <<":">>)
    THEN CHOOSE v \in Verbs : StartsWith(data, VerbChars[v] \o <<":">>)
    ELSE "None"

\* What is left for (\/\w+)(?::(.*))?$ once group 1 has matched or not.
AfterVerb(data) ==
    IF MatchedVerb(data) = "None" THEN data
    ELSE SubSeq(data, Len(VerbChars[MatchedVerb(data)]) + 2, Len(data))

\* re.match of the pattern: matched flag, groups 2 and 3 (has3 tells a None
\* group 3 from an empty one).  "$" also matches before one final newline and
\* "." matches no newline.
MatchPattern(data) ==
    LET nomatch == [matched |-> FALSE, action |-> "None", command_str |-> <<>>,
                    has3 |-> FALSE, params_str |-> <<>>]
        groups(verb, rest) ==
            LET n == Len(rest)
                w == IF n >= 1 /\ rest[1] = "/" THEN WordRun(rest, 2) ELSE 0
                j == w + 2
                found(has, p) == [matched |-> TRUE, action |-> verb,
                                  command_str |-> SubSeq(rest, 1, j - 1),
                                  has3 |-> has, params_str |-> p]
                tail(p) ==
                    IF NoNewline(p) THEN found(TRUE, p)
                    ELSE IF p[Len(p)] = "NL" /\ NoNewline(SubSeq(p, 1, Len(p) - 1))
                         THEN found(TRUE, SubSeq(p, 1, Len(p) - 1))
                    ELSE nomatch
            IN  IF w = 0 THEN nomatch
                ELSE IF j > n THEN found(FALSE, <<>>)
                ELSE IF rest[j] = "NL" /\ j = n THEN found(FALSE, <<>>)
                ELSE IF rest[j] = ":" THEN tail(SubSeq(rest, j + 1, n))
                ELSE nomatch
    IN  groups(MatchedVerb(data), AfterVerb(data))

\* parse_command: (action, enum, arguments).
ParseCommand(data) ==
    LET decoded(m) ==
            IF ~m.matched
            THEN [action |-> "None", enum |-> NoneEnum, arguments |-> <<>>]
            ELSE [action |-> m.action,
                  enum |-> CastToEnum(m.command_str),
                  arguments |-> IF m.params_str # <<>> THEN Split(m.params_str, ";")
                                ELSE <<>>]
    IN  decoded(MatchPattern(data))

-----------------------------------------------------------------------------
(* History Store *)

NonePrompt == [action |-> "None", command |-> NoneEnum, arguments |-> <<>>,
               current_prompt_index |-> 0]

\* CurrentPrompt(action, command, arguments, current_prompt_index)
CurrentPrompt(action, command, arguments, index) ==
    [action |-> action, command |-> command, arguments |-> arguments,
     current_prompt_index |-> index]

ActiveRows(h, chat_id) ==
    {i \in DOMAIN h : h[i].chat_id = chat_id /\ h[i].is_prompt
                      /\ h[i].prompt_status = "active"}

MaxOf(S) == CHOOSE i \in S : \A k \in S : k <= i

PromptRow(prompt, chat_id) ==
    [chat_id |-> chat_id, direction |-> "system",
     message_type |-> "prompt_start", is_prompt |-> TRUE,
     prompt_status |-> "active",
     content |-> [action |-> prompt.action,
                  command |-> prompt.command.value,
                  arguments |-> prompt.arguments,
                  current_prompt_index |-> prompt.current_prompt_index]]

\* Variant of log_prompt that rewrites the chat's newest active row when
\* there is one (an upsert) instead of inserting.
LogPrompt_Upsert(h, prompt, chat_id) ==
    IF ActiveRows(h, chat_id) = {} THEN Append(h, PromptRow(prompt, chat_id))
    ELSE [h EXCEPT ![MaxOf(ActiveRows(h, chat_id))] = PromptRow(prompt, chat_id)]

\* log_prompt: INSERT of one row with is_prompt TRUE and status 'active'.
LogPrompt(h, prompt, chat_id) ==
    Append(h, PromptRow(prompt, chat_id))

\* Variant of get_last_active_prompt whose query does not filter on
\* prompt_status = 'active'.
GetLastActivePrompt_AnyStatus(h, chat_id) ==
    LET rows == {i \in DOMAIN h : h[i].chat_id = chat_id /\ h[i].is_prompt} IN
    IF rows = {} THEN NonePrompt
    ELSE LET c == h[MaxOf(rows)].content IN
         CurrentPrompt(c.action, CommandFromValue(c.command), c.arguments,
                       c.current_prompt_index)

\* Variant of get_last_active_prompt that orders the rows oldest first.
GetLastActivePrompt_Oldest(h, chat_id) ==
    IF ActiveRows(h, chat_id) = {} THEN NonePrompt
    ELSE LET c == h[CHOOSE i \in ActiveRows(h, chat_id) :
                        \A k \in ActiveRows(h, chat_id) : i <= k].content IN
         CurrentPrompt(c.action, CommandFromValue(c.command), c.arguments,
                       c.current_prompt_index)

\* Variant of get_last_active_prompt whose query has no chat_id condition.
GetLastActivePrompt_AnyChat(h, chat_id) ==
    IF \A c \in {h[i].chat_id : i \in DOMAIN h} : ActiveRows(h, c) = {}
    THEN NonePrompt
    ELSE LET c == h[MaxOf(UNION {ActiveRows(h, h[i].chat_id) : i \in DOMAIN h})].content IN
         CurrentPrompt(c.action, CommandFromValue(c.command), c.arguments,
                       c.current_prompt_index)

\* get_last_active_prompt: the newest active prompt row of the chat, or None.
GetLastActivePrompt(h, chat_id) ==
    IF ActiveRows(h, chat_id) = {} THEN NonePrompt
    ELSE LET c == h[MaxOf(ActiveRows(h, chat_id))].content IN
         CurrentPrompt(c.action, CommandFromValue(c.command), c.arguments,
                       c.current_prompt_index)

\* Variant of resolve_active_prompt that resolves only the newest active row
\* of the chat.
ResolveActivePrompt_Newest(h, chat_id) ==
    [i \in DOMAIN h |->
        IF i \in ActiveRows(h, chat_id) /\ i = MaxOf(ActiveRows(h, chat_id))
        THEN [h[i] EXCEPT !.prompt_status = "resolved"] ELSE h[i]]

\* Variant of resolve_active_prompt whose UPDATE has no chat_id condition.
ResolveActivePrompt_AllChats(h, chat_id) ==
    [i \in DOMAIN h |->
        IF h[i].prompt_status = "active"
        THEN [h[i] EXCEPT !.prompt_status = "resolved"] ELSE h[i]]

\* resolve_active_prompt: UPDATE of every active row of the chat.
ResolveActivePrompt(h, chat_id) ==
    [i \in DOMAIN h |->
        IF h[i].chat_id = chat_id /\ h[i].prompt_status = "active"
        THEN [h[i] EXCEPT !.prompt_status = "resolved"] ELSE h[i]]

-----------------------------------------------------------------------------
(* Payloads *)

\* A TelegramPayload; reply_markup <<>> is the empty string "".
Payload(text) == [text |-> text, reply_markup |-> <<>>]

\* The dict {} a command method may return: neither text nor markup.
EmptyPayload == Payload("")

ErrNeedsArguments == Payload("Erreur : Cette commande necessite des arguments.")
ErrNoActivePrompt == Payload("Erreur : Aucun prompt actif.")
ErrNotRecognized == Payload("Commande non reconnue.")
ErrArity == Payload("Erreur interne: nombre d'arguments incorrect pour la commande.")
ErrInvalid(arg_name) ==
    IF arg_name = "age" THEN Payload("Argument pour 'age' est invalide. Type attendu : int.")
    ELSE Payload("Argument pour 'name' est invalide. Type attendu : str.")

\* is_empty_or_none on both keys, as send_message applies it.
IsValidPayload(m) == m.text # "" \/ m.reply_markup # <<>>

\* send_message: the valid messages are put on the queue in order.
SendMessage(q, messages) == q \o SelectSeq(messages, IsValidPayload)

RECURSIVE Chunks(_, _)
Chunks(s, n) ==
    IF Len(s) <= n THEN (IF s = <<>> THEN <<>> ELSE <<s>>)
    ELSE <<SubSeq(s, 1, n)>> \o Chunks(SubSeq(s, n + 1, Len(s)), n)

ItemsPerLine == 3

\* menu_keyboard: one payload whose markup is the grid of buttons, each
\* carrying the value of its command or menu as callback_data.
MenuKeyboard(values) ==
    << [text |-> "Voici les commandes disponibles:",
        reply_markup |-> <<"inline_keyboard",
            Chunks([i \in 1..Len(values) |-> [callback_data |-> values[i]]],
                   ItemsPerLine)>>] >>

-----------------------------------------------------------------------------
(* Handler dispatch: TelegramHandler.process_command *)

\* What the bound command method does when it is called.
HandlerResults == {"payload", "empty", "none", "raise"}

CoercionFails(type, arg) == type = "int" /\ ~IntOk(arg)

\* expected_type(arguments[i]) when it succeeds.
Coerce(arg_name, type, arg) ==
    [name |-> arg_name, type |-> type,
     str |-> IF type = "int" THEN <<>> ELSE arg,
     int |-> IF type = "int" THEN IntOf(arg) ELSE 0]

\* Variant of process_command that answers a command absent from the registry
\* like a command of another handler, with None.
ProcessCommand_SilentUnknown(i, command, arguments, hres) ==
    LET quiet(resp) == [resp |-> resp, calls |-> <<>>, exc |-> FALSE] IN
    IF ~IsRegistered(command.value) THEN quiet(<<>>)
    ELSE
    LET d == COMMAND_REGISTRY[command.value]
        n == Len(d.arg_names)
        type(k) == IF d.arg_names[k] \in DOMAIN d.kwargs_types
                   THEN d.kwargs_types[d.arg_names[k]] ELSE "str"
        bad == {k \in 1..n : CoercionFails(type(k), arguments[k])}
        call == [handler |-> i, action |-> d.action,
                 kwargs |-> [k \in 1..n |->
                     Coerce(d.arg_names[k], type(k), arguments[k])]]
    IN  IF d.action \notin Handlers[i].methods THEN quiet(<<>>)
        ELSE IF Len(arguments) # n THEN quiet(<<ErrArity>>)
        ELSE IF bad # {} THEN
            quiet(<<ErrInvalid(d.arg_names[CHOOSE k \in bad : \A l \in bad : k <= l])>>)
        ELSE [resp |-> CASE hres = "payload" -> <<Payload("reponse")>>
                         [] hres = "empty" -> <<EmptyPayload>>
                         [] OTHER -> <<>>,
              calls |-> <<call>>,
              exc |-> hres = "raise"]

\* Variant of process_command whose conversion loop does not catch the
\* ValueError of a coercer: the failure escapes.
ProcessCommand_UncaughtValueError(i, command, arguments, hres) ==
    LET quiet(resp) == [resp |-> resp, calls |-> <<>>, exc |-> FALSE] IN
    IF ~IsRegistered(command.value) THEN quiet(<<ErrNotRecognized>>)
    ELSE
    LET d == COMMAND_REGISTRY[command.value]
        n == Len(d.arg_names)
        type(k) == IF d.arg_names[k] \in DOMAIN d.kwargs_types
                   THEN d.kwargs_types[d.arg_names[k]] ELSE "str"
        bad == {k \in 1..n : CoercionFails(type(k), arguments[k])}
        call == [handler |-> i, action |-> d.action,
                 kwargs |-> [k \in 1..n |->
                     Coerce(d.arg_names[k], type(k), arguments[k])]]
    IN  IF d.action \notin Handlers[i].methods THEN quiet(<<>>)
        ELSE IF Len(arguments) # n THEN quiet(<<ErrArity>>)
        ELSE IF bad # {} THEN [resp |-> <<>>, calls |-> <<>>, exc |-> TRUE]
        ELSE [resp |-> CASE hres = "payload" -> <<Payload("reponse")>>
                         [] hres = "empty" -> <<EmptyPayload>>
                         [] OTHER -> <<>>,
              calls |-> <<call>>,
              exc |-> hres = "raise"]

\* process_command of handler i.  resp is the response as _execute_command
\* flattens it (a dict appended, a list extended, None dropped); calls holds
\* the invocation of the bound method, if it happened.
ProcessCommand(i, command, arguments, hres) ==
    LET quiet(resp) == [resp |-> resp, calls |-> <<>>, exc |-> FALSE] IN
    IF ~IsRegistered(command.value) THEN quiet(<<ErrNotRecognized>>)
    ELSE
    LET d == COMMAND_REGISTRY[command.value]
        n == Len(d.arg_names)
        \* kwargs_types.get(arg_name, str)
        type(k) == IF d.arg_names[k] \in DOMAIN d.kwargs_types
                   THEN d.kwargs_types[d.arg_names[k]] ELSE "str"
        bad == {k \in 1..n : CoercionFails(type(k), arguments[k])}
        call == [handler |-> i, action |-> d.action,
                 kwargs |-> [k \in 1..n |->
                     Coerce(d.arg_names[k], type(k), arguments[k])]]
    IN  IF d.action \notin Handlers[i].methods THEN quiet(<<>>)
        ELSE IF Len(arguments) # n THEN quiet(<<ErrArity>>)
        ELSE IF bad # {} THEN
            quiet(<<ErrInvalid(d.arg_names[CHOOSE k \in bad : \A l \in bad : k <= l])>>)
        ELSE [resp |-> CASE hres = "payload" -> <<Payload("reponse")>>
                         [] hres = "empty" -> <<EmptyPayload>>
                         [] OTHER -> <<>>,
              calls |-> <<call>>,
              exc |-> hres = "raise"]

-----------------------------------------------------------------------------
(* Router: TelegramNotificationService *)

NoCall == [called |-> FALSE, action |-> "None", command |-> NoneEnum, arguments |-> <<>>]

\* Result of handling one update: the table afterwards, the payloads given to
\* send_message on the way (out), the returned messages (ret), the handler
\* invocations, whether an exception escaped, and which calls were made.
Result(h) == [hist |-> h, out |-> <<>>, ret |-> <<>>, calls |-> <<>>, exc |-> FALSE,
              path |-> "none", prompt |-> NoCall, execute |-> NoCall]

\* _execute_command: every handler is asked in turn; an exception of one
\* handler escapes and drops the responses collected so far.
RECURSIVE ExecuteFrom(_, _, _, _)
ExecuteFrom(i, command, arguments, hres) ==
    IF i > Len(Handlers) THEN [resp |-> <<>>, calls |-> <<>>, exc |-> FALSE]
    ELSE LET extend(r, rest) ==
                 [resp |-> r.resp \o rest.resp, calls |-> r.calls \o rest.calls,
                  exc |-> rest.exc]
             next(r) ==
                 IF r.exc THEN r
                 ELSE extend(r, ExecuteFrom(i + 1, command, arguments, hres))
         IN  next(ProcessCommand(i, command, arguments, hres))

ExecuteCommand(res, command, arguments, hres) ==
    LET collect(e) ==
            [res EXCEPT !.ret = IF e.exc THEN <<>> ELSE e.resp,
                        !.calls = e.calls,
                        !.exc = e.exc,
                        !.execute = [called |-> TRUE, action |-> "None",
                                     command |-> command, arguments |-> arguments]]
    IN  collect(ExecuteFrom(1, command, arguments, hres))

\* Variant of _process_interactive_prompt that returns no message where the
\* command has no question or the chat has no active prompt.
ProcessInteractivePrompt_Silent(res, action, command, arguments, chat_id, hres) ==
    LET r == [res EXCEPT !.prompt = [called |-> TRUE, action |-> action,
                                     command |-> command, arguments |-> arguments]]
        prompts == Asks(command.value)
        current_prompt == GetLastActivePrompt(res.hist, chat_id)
        next_prompt_index == current_prompt.current_prompt_index + 1
    IN
    IF command = NoneEnum THEN [r EXCEPT !.exc = TRUE]
    ELSE IF action = "ask" THEN
        IF prompts = <<>> THEN r
        ELSE [r EXCEPT !.out = <<Payload(prompts[1])>>,
                       !.hist = LogPrompt(res.hist,
                                   CurrentPrompt(action, command, arguments, 0),
                                   chat_id)]
    ELSE IF action = "respond" THEN
        IF current_prompt = NonePrompt THEN r
        ELSE IF next_prompt_index < Len(prompts) THEN
            [r EXCEPT !.out = <<Payload(prompts[next_prompt_index + 1])>>,
                      !.hist = LogPrompt(res.hist,
                                  CurrentPrompt(current_prompt.action,
                                                current_prompt.command,
                                                arguments, next_prompt_index),
                                  chat_id)]
        ELSE ExecuteCommand([r EXCEPT !.hist = ResolveActivePrompt(res.hist, chat_id)],
                            command, arguments, hres)
    ELSE r

\* _process_interactive_prompt
ProcessInteractivePrompt(res, action, command, arguments, chat_id, hres) ==
    LET r == [res EXCEPT !.prompt = [called |-> TRUE, action |-> action,
                                     command |-> command, arguments |-> arguments]]
        prompts == Asks(command.value)
        current_prompt == GetLastActivePrompt(res.hist, chat_id)
        next_prompt_index == current_prompt.current_prompt_index + 1
    IN
    IF command = NoneEnum THEN [r EXCEPT !.exc = TRUE]
    ELSE IF action = "ask" THEN
        IF prompts = <<>> THEN [r EXCEPT !.ret = <<ErrNeedsArguments>>]
        ELSE [r EXCEPT !.out = <<Payload(prompts[1])>>,
                       !.hist = LogPrompt(res.hist,
                                   CurrentPrompt(action, command, arguments, 0),
                                   chat_id)]
    ELSE IF action = "respond" THEN
        IF current_prompt = NonePrompt THEN [r EXCEPT !.ret = <<ErrNoActivePrompt>>]
        ELSE IF next_prompt_index < Len(prompts) THEN
            [r EXCEPT !.out = <<Payload(prompts[next_prompt_index + 1])>>,
                      !.hist = LogPrompt(res.hist,
                                  CurrentPrompt(current_prompt.action,
                                                current_prompt.command,
                                                arguments, next_prompt_index),
                                  chat_id)]
        ELSE ExecuteCommand([r EXCEPT !.hist = ResolveActivePrompt(res.hist, chat_id)],
                            command, arguments, hres)
    ELSE r

HelpTriggers == {S_help, S_menu}

\* The menus of every handler's command_actions, /none left out.
RECURSIVE TopMenu(_)
TopMenu(i) ==
    IF i > Len(Handlers) THEN <<>>
    ELSE LET ca == Handlers[i].command_actions
             menus == [k \in 1..Len(ca) |-> ca[k].menu]
         IN SelectSeq(menus, LAMBDA m : m # S_none) \o TopMenu(i + 1)

\* Variant of _handle_text_message that looks the first token up in the
\* registry before it looks for an active prompt.
HandleTextMessage_CommandFirst(h, text, chat_id, hres) ==
    LET current_prompt == GetLastActivePrompt(h, chat_id)
        command_name == Split(text, " ")[1]
    IN
    IF text \in HelpTriggers
    THEN [Result(h) EXCEPT !.path = "help", !.ret = MenuKeyboard(TopMenu(1))]
    ELSE IF IsRegistered(command_name)
    THEN IF Asks(command_name) # <<>>
         THEN ProcessInteractivePrompt([Result(h) EXCEPT !.path = "command"], "ask",
                  CommandFromValue(command_name), <<>>, chat_id, hres)
         ELSE ExecuteCommand([Result(h) EXCEPT !.path = "command"],
                  CommandFromValue(command_name), <<>>, hres)
    ELSE IF current_prompt # NonePrompt /\ current_prompt.action = "ask"
    THEN ProcessInteractivePrompt([Result(h) EXCEPT !.path = "reply"], "respond",
             current_prompt.command, Append(current_prompt.arguments, text),
             chat_id, hres)
    ELSE [Result(h) EXCEPT !.path = "ignored"]

\* _handle_text_message
HandleTextMessage(h, text, chat_id, hres) ==
    LET current_prompt == GetLastActivePrompt(h, chat_id)
        command_name == Split(text, " ")[1]
    IN
    IF text \in HelpTriggers
    THEN [Result(h) EXCEPT !.path = "help", !.ret = MenuKeyboard(TopMenu(1))]
    ELSE IF current_prompt # NonePrompt /\ current_prompt.action = "ask"
    THEN ProcessInteractivePrompt([Result(h) EXCEPT !.path = "reply"], "respond",
             current_prompt.command, Append(current_prompt.arguments, text),
             chat_id, hres)
    ELSE IF IsRegistered(command_name)
    THEN IF Asks(command_name) # <<>>
         THEN ProcessInteractivePrompt([Result(h) EXCEPT !.path = "command"], "ask",
                  CommandFromValue(command_name), <<>>, chat_id, hres)
         ELSE ExecuteCommand([Result(h) EXCEPT !.path = "command"],
                  CommandFromValue(command_name), <<>>, hres)
    ELSE [Result(h) EXCEPT !.path = "ignored"]

\* Keys of sub_menu_actions after the update() of every handler's actions
\* under that menu: first occurrence keeps its place.
RECURSIVE Dedup(_)
Dedup(s) ==
    IF s = <<>> THEN s
    ELSE LET d == Dedup(SubSeq(s, 1, Len(s) - 1)) IN
         IF \E k \in 1..Len(d) : d[k] = s[Len(s)] THEN d ELSE Append(d, s[Len(s)])

RECURSIVE MenuCommands(_, _, _)
MenuCommands(i, k, menu) ==
    IF i > Len(Handlers) THEN <<>>
    ELSE IF k > Len(Handlers[i].command_actions) THEN MenuCommands(i + 1, 1, menu)
    ELSE (IF Handlers[i].command_actions[k].menu = menu
          THEN Handlers[i].command_actions[k].commands ELSE <<>>)
         \o MenuCommands(i, k + 1, menu)

\* Variant of _handle_callback_query that executes every command at once,
\* whether it declares questions or not.
HandleCallbackQuery_ExecuteAlways(h, data, chat_id, hres) ==
    LET route(p) ==
            IF p.action \in {"ask", "respond"}
            THEN ProcessInteractivePrompt([Result(h) EXCEPT !.path = "interactive"],
                     p.action, p.enum, p.arguments, chat_id, hres)
            ELSE IF p.enum # NoneEnum /\ p.enum.parent_enum = "Command"
            THEN ExecuteCommand([Result(h) EXCEPT !.path = "command"],
                          p.enum, p.arguments, hres)
            ELSE IF p.enum # NoneEnum /\ p.enum.parent_enum = "Menu"
            THEN [Result(h) EXCEPT !.path = "menu",
                      !.ret = MenuKeyboard(Dedup(MenuCommands(1, 1, p.enum.value)))]
            ELSE [Result(h) EXCEPT !.path = "unrecognized"]
    IN  route(ParseCommand(data))

\* _handle_callback_query
HandleCallbackQuery(h, data, chat_id, hres) ==
    LET route(p) ==
            IF p.action \in {"ask", "respond"}
            THEN ProcessInteractivePrompt([Result(h) EXCEPT !.path = "interactive"],
                     p.action, p.enum, p.arguments, chat_id, hres)
            ELSE IF p.enum # NoneEnum /\ p.enum.parent_enum = "Command"
            THEN IF Asks(p.enum.value) # <<>>
                 THEN ProcessInteractivePrompt([Result(h) EXCEPT !.path = "command"],
                          "ask", p.enum, <<>>, chat_id, hres)
                 ELSE ExecuteCommand([Result(h) EXCEPT !.path = "command"],
                          p.enum, p.arguments, hres)
            ELSE IF p.enum # NoneEnum /\ p.enum.parent_enum = "Menu"
            THEN [Result(h) EXCEPT !.path = "menu",
                      !.ret = MenuKeyboard(Dedup(MenuCommands(1, 1, p.enum.value)))]
            ELSE [Result(h) EXCEPT !.path = "unrecognized"]
    IN  route(ParseCommand(data))

-----------------------------------------------------------------------------
(* Updates the remote API may deliver *)

Chats == {1, 2}

RECURSIVE Join(_, _)
Join(parts, sep) ==
    IF parts = <<>> THEN <<>>
    ELSE IF Len(parts) = 1 THEN parts[1]
    ELSE parts[1] \o <<sep>> \o Join(Tail(parts), sep)

\* Variant of the encoding that separates the arguments with commas.
Encode_CommaSeparated(verb, token, arguments) ==
    (IF verb = "None" THEN <<>> ELSE VerbChars[verb] \o <<":">>)
    \o token
    \o (IF arguments = <<>> THEN <<>> ELSE <<":">> \o Join(arguments, ","))

\* callback_data of a button: [verb:]token[:arg1;arg2;...]
Encode(verb, token, arguments) ==
    (IF verb = "None" THEN <<>> ELSE VerbChars[verb] \o <<":">>)
    \o token
    \o (IF arguments = <<>> THEN <<>> ELSE <<":">> \o Join(arguments, ";"))

A_name == <<"A">>
A_age == <<"3">>

\* Texts: the help trigger, a command with questions, a command without,
\* two answers (the second a decimal literal) and a command followed by a word.
TextInputs == {S_help, S_greet, S_ping, S_orphan, A_name, A_age,
               S_greet \o <<" ">> \o A_age}

\* Callback data: every verb, tokens that are a command with questions, a
\* command without, a menu and neither, and data outside the grammar.
CallbackInputs ==
    {Encode("None", S_greet, <<A_name, A_age>>), Encode("None", S_ping, <<>>),
     Encode("None", S_main, <<>>), Encode("None", S_unknown, <<>>),
     Encode("ask", S_greet, <<A_name>>), Encode("ask", S_ping, <<>>),
     Encode("ask", S_unknown, <<A_name>>),
     Encode("respond", S_greet, <<A_name, A_age>>), Encode("respond", S_unknown, <<>>),
     Encode("respond", S_main, <<>>),
     Encode("cancel", S_greet, <<A_name, A_age>>), Encode("confirm", S_ping, <<A_name>>),
     <<"g">>}

\* An update as parse_update classifies it; an update that is neither a text
\* message nor a callback query has no chat id.  The second chat only takes
\* part in prompts started by text.
Updates ==
    [type : {"text"}, chat_id : {1}, data : TextInputs]
    \cup [type : {"callback_query"}, chat_id : {1}, data : CallbackInputs]
    \cup [type : {"text"}, chat_id : {2}, data : {S_greet, A_name}]
    \cup [type : {"callback_query"}, chat_id : {2},
          data : {Encode("respond", S_greet, <<A_name, A_age>>)}]
    \cup [type : {"unknown"}, chat_id : {0}, data : {<<>>}]

-----------------------------------------------------------------------------
(* Specification *)

\* No update has been processed yet.
NoUpdate ==
    [update |-> [type |-> "none", chat_id |-> 0, data |-> <<>>],
     before |-> NonePrompt,
     path |-> "none", sent |-> <<>>, calls |-> <<>>, exc |-> FALSE,
     prompt |-> NoCall, execute |-> NoCall]

\* TelegramBot.active_prompts: chat -> {'command', 'arguments'}; a chat that
\* is not a key of the dict has active FALSE.
NoActivePrompts ==
    [c \in Chats |-> [active |-> FALSE, command |-> <<>>, arguments |-> <<>>]]

\* The incoming queue of a worker running the given loop, nothing put yet.
\* accepted holds the updates put before the shutdown sentinel, done the
\* updates the worker has dequeued, raised whether processing one of them
\* raised.
EmptyInbox(loop) ==
    [loop |-> loop, queue |-> <<>>, status |-> "running", sentinel |-> FALSE,
     accepted |-> <<>>, done |-> <<>>, raised |-> FALSE,
     active_prompts |-> NoActivePrompts, sent |-> <<>>]

\* No call of send_message is under way.
NoSend ==
    [max_retries |-> 0, attempt |-> 0, attempts |-> <<>>, sleeps |-> <<>>,
     last_exception |-> "None", result |-> "none"]

\* A MessageSender that has not been started.
NoSender ==
    [queue |-> <<>>, stop_event |-> FALSE,
     worker |-> [pc |-> "none", message |-> <<>>],
     stop |-> "idle", at_stop |-> <<>>, mark |-> 0,
     service |-> "none", router |-> "none", sentinel |-> FALSE,
     accepted |-> <<>>, logged |-> <<>>, passed |-> <<>>, call |-> <<>>]

\* None as the value of an integer attribute.
NoneId == 0 - 1

\* A MessageReceiver that has not been started.
NoReceiver ==
    [pc |-> "none", stop_event |-> FALSE, last_update_id |-> NoneId,
     offset |-> NoneId, polls |-> 0, batch |-> <<>>, put |-> 0,
     error |-> "none", sleep |-> 0]

\* The components that own a worker thread: the MessageSender, the
\* MessageReceiver and the command processor of the TelegramService.
Components == {"sender", "receiver", "processor"}

\* No component has been started: no thread object, the stop events clear,
\* no sentinel on the incoming queue, no call made yet.
NoWorkers ==
    [of |-> [c \in Components |->
               [threads |-> <<>>, stop_event |-> FALSE, sentinels |-> 0]],
     call |-> [op |-> "none", component |-> "none", spawned |-> FALSE]]

\* The variables of the specifications that are not running.
\* The registry before any decorator ran, and no registration attempted.
NoRegistry == [entries |-> <<>>, call |-> <<>>]

\* A BaseService that has not been constructed.
NoBase ==
    [outgoing |-> <<>>, sender |-> [pc |-> "none", message |-> <<>>],
     receiver |-> [polls |-> 0, last_update_id |-> NoneId],
     stop |-> "none", passed |-> <<>>]

\* Nothing encoded and nothing parsed.
NoCodec ==
    [pc |-> "none", verb |-> "None", token |-> <<>>, arguments |-> <<>>,
     data |-> <<>>,
     parsed |-> [action |-> "None", enum |-> NoneEnum, arguments |-> <<>>]]

Idle(variables) ==
    /\ "history" \in variables => history = <<>>
    /\ "last" \in variables => last = NoUpdate
    /\ "inbox" \in variables => inbox = EmptyInbox("none")
    /\ "client" \in variables => client = NoSend
    /\ "sender" \in variables => sender = NoSender
    /\ "receiver" \in variables => receiver = NoReceiver
    /\ "workers" \in variables => workers = NoWorkers
    /\ "registry" \in variables => registry = NoRegistry
    /\ "codec" \in variables => codec = NoCodec
    /\ "base" \in variables => base = NoBase

Init ==
    /\ history = <<>>
    /\ last = NoUpdate
    /\ inbox = EmptyInbox("none")
    /\ client = NoSend
    /\ sender = NoSender
    /\ Idle({"base", "receiver", "workers", "registry", "codec"})

\* Handling of one update, by its type.
Handle(h, update, hres) ==
    IF update.type = "text"
    THEN HandleTextMessage(h, update.data, update.chat_id, hres)
    ELSE IF update.type = "callback_query"
    THEN HandleCallbackQuery(h, update.data, update.chat_id, hres)
    ELSE [Result(h) EXCEPT !.path = "no_chat_id"]

\* The payloads one update puts on the outgoing queue: those sent on the way
\* and, unless an exception escaped, the returned messages.
Enqueued(r) ==
    SendMessage(<<>>, r.out) \o (IF r.exc THEN <<>> ELSE SendMessage(<<>>, r.ret))

\* One iteration of process_commands on a dequeued update, one of updates.
\* hres is what the command method does if this update gets one called.
Process(updates) ==
    \E update \in updates :
        \E hres \in (IF Handle(history, update, "payload").calls = <<>>
                     THEN {"payload"} ELSE HandlerResults) :
            \E r \in {Handle(history, update, hres)} :
            /\ Len(r.hist) <= MaxLog
            /\ history' = r.hist
            /\ last' = [update |-> update,
                        before |-> GetLastActivePrompt(history, update.chat_id),
                        path |-> r.path, sent |-> Enqueued(r),
                        calls |-> r.calls, exc |-> r.exc,
                        prompt |-> r.prompt, execute |-> r.execute]
            /\ UNCHANGED <<inbox, client, sender, receiver, workers, registry, codec, base>>

ProcessCommands == Process(Updates)

Next == ProcessCommands

Spec == Init /\ [][Next]_vars

\* The prompts that callbacks start: ask callbacks for the command with two
\* questions that carry no argument, one, and both; one for the command
\* without questions; and the texts that answer.
AskUpdates ==
    [type : {"callback_query"}, chat_id : {1},
     data : {Encode("ask", S_greet, <<>>), Encode("ask", S_greet, <<A_name>>),
             Encode("ask", S_greet, <<A_name, A_age>>), Encode("ask", S_ping, <<>>)}]
    \cup [type : {"text"}, chat_id : {1}, data : {A_name, A_age}]

ProcessAsks == Process(AskUpdates)

AskNext == ProcessAsks

AskSpec == Init /\ [][AskNext]_vars

\* A chat that starts a prompt while it has one: the two commands with
\* questions as text and as callbacks, bare and with the ask verb, the texts
\* that answer, and a callback that answers in the name of either command.
SupersedeUpdates ==
    [type : {"text"}, chat_id : {1}, data : {S_greet, A_name, A_age}]
    \cup [type : {"callback_query"}, chat_id : {1},
          data : {Encode("None", S_date, <<>>), Encode("ask", S_date, <<>>),
                  Encode("ask", S_greet, <<>>),
                  Encode("respond", S_date, <<A_name>>),
                  Encode("respond", S_greet, <<A_name, A_age>>)}]

ProcessSuperseding == Process(SupersedeUpdates)

SupersedeNext == ProcessSuperseding

SupersedeSpec == Init /\ [][SupersedeNext]_vars

-----------------------------------------------------------------------------
(* The worker loops that consume the incoming queue *)

\* The updates the receiver delivers in the exploration of the loops: a
\* command with questions, a command without, an answer, and callback data
\* whose token is unknown.
LoopUpdates ==
    [type : {"text"}, chat_id : {1}, data : {S_greet, S_ping, A_name}]
    \cup [type : {"callback_query"}, chat_id : {1},
          data : {Encode("ask", S_unknown, <<A_name>>)}]

\* The handler a TelegramBot is given.
BotHandler == 2

\* One pass of the body of TelegramBot._processor on an update: the
\* active_prompts afterwards, the payloads given to send_message, the command
\* methods called and whether an exception left the body.
BotProcess(active_prompts, update, hres) ==
    LET quiet == [active_prompts |-> active_prompts, sent |-> <<>>,
                  calls |-> <<>>, exc |-> FALSE]
        \* handler.process_command and "if response_payload: send_message"
        reply(prompts, r) ==
            [active_prompts |-> prompts,
             sent |-> IF r.exc THEN <<>> ELSE SelectSeq(r.resp, LAMBDA m : m # EmptyPayload),
             calls |-> r.calls, exc |-> r.exc]
        chat == update.chat_id
        prompt_info == active_prompts[chat]
        arguments == Append(prompt_info.arguments, update.data)
        appended == [active_prompts EXCEPT ![chat].arguments = arguments]
        deleted == [active_prompts EXCEPT
                       ![chat] = [active |-> FALSE, command |-> <<>>, arguments |-> <<>>]]
        command_name == Split(update.data, " ")[1]
        execute(prompts, kept, enum, args) ==
            IF enum = NoneEnum THEN [quiet EXCEPT !.active_prompts = kept, !.exc = TRUE]
            ELSE reply(prompts, ProcessCommand(BotHandler, enum, args, hres))
        finish(r, kept) == IF r.exc THEN [r EXCEPT !.active_prompts = kept] ELSE r
    IN
    IF update.type = "text" THEN
        IF prompt_info.active THEN
            IF Len(arguments) < Len(Asks(prompt_info.command))
            THEN [quiet EXCEPT !.active_prompts = appended,
                               !.sent = <<Payload(Asks(prompt_info.command)[Len(arguments) + 1])>>]
            ELSE finish(execute(deleted, appended,
                                CommandFromValue(prompt_info.command), arguments),
                        appended)
        ELSE IF IsRegistered(command_name) THEN
            IF command_name = S_menu
            THEN [quiet EXCEPT !.sent = <<Payload("Veuillez choisir une option :")>>]
            ELSE IF Asks(command_name) # <<>>
            THEN [quiet EXCEPT
                     !.active_prompts[chat] =
                         [active |-> TRUE, command |-> command_name, arguments |-> <<>>],
                     !.sent = <<Payload(Asks(command_name)[1])>>]
            ELSE execute(active_prompts, active_prompts,
                         CommandFromValue(command_name), <<>>)
        ELSE quiet
    ELSE IF update.type = "callback_query"
    THEN execute(active_prompts, active_prompts, CommandFromValue(update.data), <<>>)
    ELSE quiet

\* The receiver puts an update on the incoming queue.
Put ==
    \E update \in LoopUpdates :
        /\ Len(SelectSeq(inbox.queue, LAMBDA u : u.type # "None")) + Len(inbox.done)
             < MaxIncoming
        /\ inbox' = [inbox EXCEPT
                        !.queue = Append(@, update),
                        !.accepted = IF inbox.sentinel THEN @ ELSE Append(@, update)]
        /\ UNCHANGED <<history, last, client, sender, receiver, workers, registry, codec, base>>

\* Variant of stop() that puts the sentinel and leaves the stop event clear.
PutSentinel_NoStopEvent ==
    /\ ~inbox.sentinel
    /\ inbox' = [inbox EXCEPT
                    !.queue = Append(@, [type |-> "None", chat_id |-> 0, data |-> <<>>]),
                    !.sentinel = TRUE]
    /\ UNCHANGED <<history, last, client, sender, receiver, workers, registry, codec, base>>

\* stop() sets the stop event and puts the shutdown sentinel None on the
\* incoming queue.
PutSentinel ==
    /\ ~inbox.sentinel
    /\ inbox' = [inbox EXCEPT
                    !.queue = Append(@, [type |-> "None", chat_id |-> 0, data |-> <<>>]),
                    !.sentinel = TRUE]
    /\ receiver' = [receiver EXCEPT !.stop_event = TRUE]
    /\ UNCHANGED <<history, last, client, sender, workers, registry, codec, base>>

\* One iteration of the loop of process_commands that finds the queue
\* non-empty: the sentinel ends the loop; any exception raised while the update
\* is processed is caught and the loop goes on.
RouterIteration ==
    /\ inbox.loop = "process_commands"
    /\ inbox.status = "running"
    /\ inbox.queue # <<>>
    /\ IF Head(inbox.queue).type = "None"
       THEN /\ inbox' = [inbox EXCEPT !.queue = Tail(@), !.status = "stopped"]
            /\ UNCHANGED <<history, last, client, sender, receiver, workers, registry, codec, base>>
       ELSE \E hres \in (IF Handle(history, Head(inbox.queue), "payload").calls = <<>>
                          THEN {"payload"} ELSE HandlerResults) :
            \E r \in {Handle(history, Head(inbox.queue), hres)} :
                /\ history' = r.hist
                /\ last' = [update |-> Head(inbox.queue),
                            before |-> GetLastActivePrompt(history, Head(inbox.queue).chat_id),
                            path |-> r.path, sent |-> Enqueued(r),
                            calls |-> r.calls, exc |-> r.exc,
                            prompt |-> r.prompt, execute |-> r.execute]
                /\ inbox' = [inbox EXCEPT
                                !.queue = Tail(@),
                                !.done = Append(@, Head(inbox.queue)),
                                !.raised = @ \/ r.exc,
                                !.sent = @ \o Enqueued(r)]
                /\ UNCHANGED <<client, sender, receiver, workers, registry, codec, base>>

\* One iteration of the loop of TelegramBot._processor: the sentinel ends
\* the loop; the body has no exception handler, so an exception ends the
\* thread.
BotIteration ==
    /\ inbox.loop = "_processor"
    /\ inbox.status = "running"
    /\ inbox.queue # <<>>
    /\ UNCHANGED <<history, last, client, sender, receiver, workers, registry, codec, base>>
    /\ IF Head(inbox.queue).type = "None"
       THEN inbox' = [inbox EXCEPT !.queue = Tail(@), !.status = "stopped"]
       ELSE \E hres \in (IF BotProcess(inbox.active_prompts, Head(inbox.queue),
                                        "payload").calls = <<>>
                          THEN {"payload"} ELSE HandlerResults) :
            \E r \in {BotProcess(inbox.active_prompts, Head(inbox.queue), hres)} :
                inbox' = [inbox EXCEPT
                             !.queue = Tail(@),
                             !.done = Append(@, Head(inbox.queue)),
                             !.raised = @ \/ r.exc,
                             !.status = IF r.exc THEN "dead" ELSE @,
                             !.active_prompts = r.active_prompts,
                             !.sent = @ \o r.sent]

RouterInit ==
    /\ history = <<>>
    /\ last = NoUpdate
    /\ inbox \in {EmptyInbox("process_commands"), EmptyInbox("_processor")}
    /\ client = NoSend
    /\ sender = NoSender
    /\ Idle({"base", "receiver", "workers", "registry", "codec"})

RouterNext == Put \/ PutSentinel \/ RouterIteration \/ BotIteration

RouterSpec == RouterInit /\ [][RouterNext]_vars

-----------------------------------------------------------------------------
(* Transport client: TelegramClient._post_with_retry *)

\* What one requests.post followed by raise_for_status does: it returns, or
\* raises HTTPError with the response of that status, ConnectionError,
\* Timeout, or another RequestException.  The response of an HTTPError is a
\* requests.Response, whose truth value is its "ok" (status below 400), or a
\* test double (Mock), which is always true.
HttpStatuses == {400, 404, 429, 500}

Outcomes ==
    [kind : {"ok"}, status : {200}, response : {"Response"}]
    \cup [kind : {"HTTPError"}, status : HttpStatuses, response : {"Response", "Mock"}]
    \cup [kind : {"ConnectionError", "Timeout", "RequestException"},
          status : {0}, response : {"None"}]

\* bool(e.response)
ResponseIsTrue(o) ==
    CASE o.response = "Mock" -> TRUE
      [] o.response = "Response" -> o.status < 400
      [] OTHER -> FALSE

\* status_code = e.response.status_code if e.response else None; 0 is None.
StatusCode(o) == IF ResponseIsTrue(o) THEN o.status ELSE 0

\* Variant of the test that makes no exception of 429.
NonRecoverable_Including429(o) ==
    StatusCode(o) # 0 /\ 400 <= StatusCode(o) /\ StatusCode(o) < 500

\* if status_code and 400 <= status_code < 500 and status_code != 429
NonRecoverable(o) ==
    StatusCode(o) # 0 /\ 400 <= StatusCode(o) /\ StatusCode(o) < 500
    /\ StatusCode(o) # 429

RECURSIVE Pow2(_)
Pow2(n) == IF n = 0 THEN 1 ELSE 2 * Pow2(n - 1)

\* Variant of the backoff that waits the same time after every attempt.
WaitTime_Constant(attempt) == 1

\* wait_time = (2 ** attempt) * 0.5, counted in half-seconds.
WaitTime(attempt) == Pow2(attempt)

\* Variant of the raise that follows the last attempt: always the network
\* error.
GiveUp_AlwaysNetworkError(last_exception) == "TelegramNetworkError"

\* The raise that follows the last attempt.
GiveUp(last_exception) ==
    IF last_exception = "HTTPError" THEN "TelegramAPIError"
    ELSE "TelegramNetworkError"

\* for attempt in range(max_retries)
MayAttempt(c) == c.result = "running" /\ c.attempt < c.max_retries

\* The call send_message(payload, max_retries): with an empty range the loop
\* body never runs and the call raises at once.
StartSend(max_retries) ==
    [max_retries |-> max_retries, attempt |-> 0, attempts |-> <<>>,
     sleeps |-> <<>>, last_exception |-> "None",
     result |-> IF max_retries > 0 THEN "running" ELSE GiveUp("None")]

\* One iteration of the retry loop, and what follows the loop when it was
\* the last iteration.
PostAttempt ==
    \E o \in Outcomes :
        /\ MayAttempt(client)
        /\ client' =
             LET made == [client EXCEPT !.attempts = Append(@, o)] IN
             IF o.kind = "ok" THEN [made EXCEPT !.result = "returned"]
             ELSE IF o.kind = "HTTPError" /\ NonRecoverable(o)
             THEN [made EXCEPT !.result = "TelegramAPIError"]
             ELSE IF o.kind = "RequestException"
             THEN [made EXCEPT !.result = "TelegramNetworkError"]
             ELSE [made EXCEPT
                      !.last_exception = o.kind,
                      !.sleeps = IF client.attempt < client.max_retries - 1
                                 THEN Append(@, WaitTime(client.attempt)) ELSE @,
                      !.attempt = @ + 1,
                      !.result = IF client.attempt + 1 < client.max_retries
                                 THEN "running" ELSE GiveUp(o.kind)]
        /\ UNCHANGED <<history, last, inbox, sender, receiver, workers, registry, codec, base>>

ClientInit ==
    /\ history = <<>>
    /\ last = NoUpdate
    /\ inbox = EmptyInbox("none")
    /\ client \in {StartSend(n) : n \in 0..MaxRetriesBound}
    /\ sender = NoSender
    /\ Idle({"base", "receiver", "workers", "registry", "codec"})

ClientNext == PostAttempt

ClientSpec == ClientInit /\ [][ClientNext]_vars

-----------------------------------------------------------------------------
(* Sender: MessageSender and its worker thread *)

\* The messages handed to send_message: a text and a reply_markup, each
\* None, the empty string or a content.
Messages ==
    [text : {"None", "", "a"}, reply_markup : {"None", "", "kb"}]

\* ensure_list: a single message is a list of one.
Calls ==
    {<<m>> : m \in Messages} \cup {<<m, n>> : m \in Messages, n \in Messages}

\* is_empty_or_none
is_empty_or_none(value) == value = "None" \/ value = ""

\* Variant of the validity test that looks at the text only.
IsValidMessage_TextOnly(message) == ~is_empty_or_none(message.text)

\* MessageSender._is_valid_message
IsValidMessage(message) ==
    \E key \in {"text", "reply_markup"} : ~is_empty_or_none(message[key])

\* What _send_payload does with a payload: the history store may fail before
\* the client is called; the client returns or raises.
SendOutcomes == {"sent", "TelegramNetworkError", "sqlite3.Error"}

\* Whether log_interaction recorded the payload as outgoing.
LoggedOutgoing(outcome) == outcome # "sqlite3.Error"

\* Variant of _send_payload that calls the client before it logs.
PassedToSend_BeforeLog(outcome) == TRUE

\* Whether client.send_message was called with the payload: it is the
\* statement after log_interaction.
PassedToSend(outcome) == LoggedOutgoing(outcome)

\* A started MessageSender with an empty queue; router tells whether a
\* Router thread produces its messages ("running") or the thread that owns
\* the sender ("none").
StartedSender(service, router) ==
    [NoSender EXCEPT !.worker = [pc |-> "loop", message |-> <<>>],
                     !.service = service, !.router = router]

\* MessageSender.send_message, called by the Router thread of a service
\* until it ends, or else by the thread that later calls stop.
Sender_send_message ==
    \E messages \in Calls :
        /\ sender.worker.pc # "none"
        /\ IF sender.router = "none" THEN sender.stop = "idle"
           ELSE sender.router = "running"
        /\ Len(sender.accepted) + Len(SelectSeq(messages, IsValidMessage))
             <= MaxPayloads
        /\ sender' = [sender EXCEPT
                         !.queue = @ \o SelectSeq(messages, IsValidMessage),
                         !.accepted = @ \o SelectSeq(messages, IsValidMessage),
                         !.call = messages]
        /\ UNCHANGED <<history, last, inbox, client, receiver, workers, registry, codec, base>>

\* The field call holds the argument of send_message while the call is
\* made; it is gone once another step is taken.
CallOver(s) == [s EXCEPT !.call = <<>>]

\* The test of the loop of _message_sender.
WorkerCheck ==
    /\ sender.worker.pc = "loop"
    /\ sender' = [CallOver(sender) EXCEPT
                     !.worker.pc = IF sender.stop_event THEN "exited" ELSE "get"]
    /\ UNCHANGED <<history, last, inbox, client, receiver, workers, registry, codec, base>>

\* get(timeout=0.1): the head of the queue, or queue.Empty and back to the
\* test of the loop.
WorkerGet ==
    /\ sender.worker.pc = "get"
    /\ sender' =
         IF sender.queue = <<>>
         THEN [CallOver(sender) EXCEPT !.worker.pc = "loop"]
         ELSE [CallOver(sender) EXCEPT !.queue = Tail(@),
                             !.worker = [pc |-> "send",
                                         message |-> <<Head(sender.queue)>>]]
    /\ UNCHANGED <<history, last, inbox, client, receiver, workers, registry, codec, base>>

\* Variant of the worker that puts a message back when its send raised.
WorkerSend_Requeue ==
    \E outcome \in SendOutcomes :
        /\ sender.worker.pc = "send"
        /\ sender' = [CallOver(sender) EXCEPT
                         !.worker = [pc |-> "loop", message |-> <<>>],
                         !.queue = IF outcome = "sent" THEN @
                                   ELSE @ \o sender.worker.message,
                         !.logged = IF IsValidMessage(sender.worker.message[1])
                                       /\ LoggedOutgoing(outcome)
                                    THEN @ \o sender.worker.message ELSE @,
                         !.passed = IF IsValidMessage(sender.worker.message[1])
                                       /\ PassedToSend(outcome)
                                    THEN @ \o sender.worker.message ELSE @]
        /\ UNCHANGED <<history, last, inbox, client, receiver, workers, registry, codec, base>>

\* The worker sends the message it holds; every exception is caught and the
\* loop goes on.
WorkerSend ==
    \E outcome \in SendOutcomes :
        /\ sender.worker.pc = "send"
        /\ sender' = [CallOver(sender) EXCEPT
                         !.worker = [pc |-> "loop", message |-> <<>>],
                         !.logged = IF IsValidMessage(sender.worker.message[1])
                                       /\ LoggedOutgoing(outcome)
                                    THEN @ \o sender.worker.message ELSE @,
                         !.passed = IF IsValidMessage(sender.worker.message[1])
                                       /\ PassedToSend(outcome)
                                    THEN @ \o sender.worker.message ELSE @]
        /\ UNCHANGED <<history, last, inbox, client, receiver, workers, registry, codec, base>>

\* The first statements of MessageSender.stop: the stop event is set and
\* flush_queue is entered.
BeginStop(s) ==
    [s EXCEPT !.stop_event = TRUE, !.stop = "flush", !.call = <<>>,
              !.at_stop = s.queue, !.mark = Len(s.passed)]

StopCall ==
    /\ sender.router = "none"
    /\ sender.worker.pc # "none"
    /\ sender.stop = "idle"
    /\ sender' = BeginStop(sender)
    /\ UNCHANGED <<history, last, inbox, client, receiver, workers, registry, codec, base>>

\* One test of the loop of flush_queue and, when the queue is not empty, one
\* iteration: only queue.Empty is caught, so an exception of _send_payload
\* ends flush_queue and stop.
FlushStep ==
    \E outcome \in SendOutcomes :
        /\ sender.stop = "flush"
        /\ sender' =
             IF sender.queue = <<>>
             THEN [CallOver(sender) EXCEPT !.stop = "join"]
             ELSE [CallOver(sender) EXCEPT
                      !.queue = Tail(@),
                      !.logged = IF IsValidMessage(Head(sender.queue))
                                    /\ LoggedOutgoing(outcome)
                                 THEN Append(@, Head(sender.queue)) ELSE @,
                      !.passed = IF IsValidMessage(Head(sender.queue))
                                    /\ PassedToSend(outcome)
                                 THEN Append(@, Head(sender.queue)) ELSE @,
                      !.stop = IF IsValidMessage(Head(sender.queue))
                                  /\ outcome # "sent"
                               THEN "raised" ELSE @]
        /\ UNCHANGED <<history, last, inbox, client, receiver, workers, registry, codec, base>>

\* join: stop waits for the worker thread to end.  The timeout of 5 seconds
\* can only pass while the worker is inside a send, whose payload has then
\* been passed to the client already.
Sender_join ==
    /\ sender.stop = "join"
    /\ sender.worker.pc = "exited"
    /\ sender' = [CallOver(sender) EXCEPT !.stop = "returned"]
    /\ UNCHANGED <<history, last, inbox, client, receiver, workers, registry, codec, base>>

SenderInit ==
    /\ history = <<>>
    /\ last = NoUpdate
    /\ inbox = EmptyInbox("none")
    /\ client = NoSend
    /\ sender = StartedSender("none", "none")
    /\ Idle({"base", "receiver", "workers", "registry", "codec"})

SenderNext ==
    \/ Sender_send_message
    \/ WorkerCheck
    \/ WorkerGet
    \/ WorkerSend
    \/ StopCall
    \/ FlushStep
    \/ Sender_join

SenderSpec == SenderInit /\ [][SenderNext]_vars

-----------------------------------------------------------------------------
(* Service: TelegramService.stop with the Router and the Sender worker *)

\* TelegramService.stop sets its stop event and calls MessageSender.stop.
ServiceStop ==
    /\ sender.service = "idle"
    /\ sender' = [BeginStop(sender) EXCEPT !.service = "sender.stop"]
    /\ UNCHANGED <<history, last, inbox, client, receiver, workers, registry, codec, base>>

\* MessageSender.stop has ended: when it returned, MessageReceiver.stop puts
\* the sentinel on the incoming queue; when it raised, so does
\* TelegramService.stop.
ReceiverStop ==
    /\ sender.service = "sender.stop"
    /\ sender.stop \in {"returned", "raised"}
    /\ sender' = IF sender.stop = "returned"
                  THEN [CallOver(sender) EXCEPT !.sentinel = TRUE, !.service = "join"]
                  ELSE [CallOver(sender) EXCEPT !.service = "raised"]
    /\ UNCHANGED <<history, last, inbox, client, receiver, workers, registry, codec, base>>

\* The Router reads the sentinel and leaves its loop.
RouterBreak ==
    /\ sender.router = "running"
    /\ sender.sentinel
    /\ sender' = [CallOver(sender) EXCEPT !.router = "stopped"]
    /\ UNCHANGED <<history, last, inbox, client, receiver, workers, registry, codec, base>>

\* TelegramService.stop joins the Router thread and returns.
JoinProcessor ==
    /\ sender.service = "join"
    /\ sender.router = "stopped"
    /\ sender' = [CallOver(sender) EXCEPT !.service = "returned"]
    /\ UNCHANGED <<history, last, inbox, client, receiver, workers, registry, codec, base>>

ServiceInit ==
    /\ history = <<>>
    /\ last = NoUpdate
    /\ inbox = EmptyInbox("none")
    /\ client = NoSend
    /\ sender = StartedSender("idle", "running")
    /\ Idle({"base", "receiver", "workers", "registry", "codec"})

ServiceNext ==
    \/ Sender_send_message
    \/ WorkerCheck
    \/ WorkerGet
    \/ WorkerSend
    \/ ServiceStop
    \/ FlushStep
    \/ Sender_join
    \/ ReceiverStop
    \/ RouterBreak
    \/ JoinProcessor

ServiceSpec == ServiceInit /\ [][ServiceNext]_vars

-----------------------------------------------------------------------------
(* Worker threads: start and stop of the three components *)

\* thread.is_alive() of the thread the component holds
IsAlive(w) == w.threads # <<>> /\ w.threads[Len(w.threads)] = "alive"

\* Variant of the test of start that spawns whatever the thread does.
MustSpawn_Always(w) == TRUE

\* if self.__thread is None or not self.__thread.is_alive()
MustSpawn(w) == ~IsAlive(w)

\* The worker of the sender and of the receiver leaves its loop on the stop
\* event; the command processor leaves it on a sentinel of the incoming
\* queue.
MayExit(c, w) ==
    IF c = "processor" THEN w.sentinels > 0 ELSE w.stop_event

\* start of a component; the sender and the receiver clear their stop event
\* before they spawn.
Start ==
    \E c \in Components :
        /\ MustSpawn(workers.of[c]) => Len(workers.of[c].threads) < MaxThreads
        /\ workers' =
             IF MustSpawn(workers.of[c])
             THEN [workers EXCEPT
                      !.of[c].threads = Append(@, "alive"),
                      !.of[c].stop_event = IF c = "processor" THEN @ ELSE FALSE,
                      !.call = [op |-> "start", component |-> c, spawned |-> TRUE]]
             ELSE [workers EXCEPT
                      !.call = [op |-> "start", component |-> c, spawned |-> FALSE]]
        /\ UNCHANGED <<history, last, inbox, client, sender, receiver, registry, codec, base>>

\* stop of a component: the sender and the receiver set their stop event,
\* and the stop of the receiver puts the sentinel that ends the command
\* processor; the join that follows has a timeout, so the call returns
\* whether the worker has ended or not.
Stop ==
    \E c \in {"sender", "receiver"} :
        /\ workers.of["processor"].sentinels < MaxThreads
        /\ workers' =
             [workers EXCEPT
                 !.of[c].stop_event = TRUE,
                 !.of["processor"].sentinels = IF c = "receiver" THEN @ + 1 ELSE @,
                 !.call = [op |-> "stop", component |-> c, spawned |-> FALSE]]
        /\ UNCHANGED <<history, last, inbox, client, sender, receiver, registry, codec, base>>

\* A live worker sees its stop signal and ends.
WorkerExit ==
    \E c \in Components :
        /\ IsAlive(workers.of[c])
        /\ MayExit(c, workers.of[c])
        /\ workers' =
             [workers EXCEPT
                 !.of[c].threads = [@ EXCEPT ![Len(@)] = "dead"],
                 !.of[c].sentinels = IF c = "processor" THEN @ - 1 ELSE @,
                 !.call = [op |-> "exit", component |-> c, spawned |-> FALSE]]
        /\ UNCHANGED <<history, last, inbox, client, sender, receiver, registry, codec, base>>

WorkersInit ==
    Idle({"base", "history", "last", "inbox", "client", "sender", "receiver",
          "workers", "registry", "codec"})

WorkersNext == Start \/ Stop \/ WorkerExit

WorkersSpec == WorkersInit /\ [][WorkersNext]_vars

-----------------------------------------------------------------------------
(* Receiver: MessageReceiver._message_receiver and the Router behind it *)

\* The updates the remote API holds, in the order of their ids: a command
\* with questions, an answer, callback data whose processing raises in the
\* Router, and a command without questions.
Stream ==
    <<[update_id |-> 5, type |-> "text", chat_id |-> 1, data |-> S_greet],
      [update_id |-> 6, type |-> "text", chat_id |-> 1, data |-> A_name],
      [update_id |-> 7, type |-> "callback_query", chat_id |-> 1,
       data |-> Encode("ask", S_unknown, <<A_name>>)],
      [update_id |-> 8, type |-> "text", chat_id |-> 1, data |-> S_ping]>>

\* The "result" of a getUpdates response: any run of consecutive updates,
\* the empty one included.  The API answers a request with the updates that
\* follow the offset, but it also restarts its ids after a long idle time,
\* so a run may start anywhere.
Batches ==
    {SubSeq(Stream, i, j) : i \in 1..Len(Stream), j \in 0..Len(Stream)}

\* How one iteration of the loop ends after the request was sent:
\* get_updates raises TelegramNetworkError; something else raises before an
\* update is looked at; or the batch is walked through, where fails is the
\* position of the update whose log_interaction raises (0: none does).
PollResults ==
    [kind : {"TelegramNetworkError", "Exception"}, batch : {<<>>}, fails : {0}]
    \cup {r \in [kind : {"result"}, batch : Batches, fails : 0..Len(Stream)] :
             r.fails <= Len(r.batch)}

\* Variant of the queue that takes new updates at its head.
PutAll_AtHead(q, updates) == updates \o q

\* self.__incoming_queue.put(update), for the updates in their order
PutAll(q, updates) == q \o updates

\* The updates of the batch that were put on the incoming queue.
PutCount(r) == IF r.fails = 0 THEN Len(r.batch) ELSE r.fails - 1

\* Variant of the assignment that never lets last_update_id go down.
LastUpdateId_Max(current, r) ==
    IF r.batch = <<>> THEN current
    ELSE LET id == r.batch[IF r.fails = 0 THEN Len(r.batch) ELSE r.fails].update_id
         IN IF id > current THEN id ELSE current

\* self.__last_update_id = update.get("update_id"), for every update the
\* loop over the batch reaches.
LastUpdateId(current, r) ==
    IF r.batch = <<>> THEN current
    ELSE r.batch[IF r.fails = 0 THEN Len(r.batch) ELSE r.fails].update_id

\* Variant of the request that carries the stored id itself.
Offset_SameId(last_update_id) == last_update_id

\* params["offset"] = self.__last_update_id + 1, when it is not None.
Offset(last_update_id) ==
    IF last_update_id = NoneId THEN NoneId ELSE last_update_id + 1

\* Variant of the back-off that ends the thread on a network error.
AfterPoll_ExitOnError(r) ==
    IF r.kind = "TelegramNetworkError" THEN "exited" ELSE "check"

\* Every exception of an iteration is caught inside the loop, which goes
\* back to its test.
AfterPoll(r) == "check"

\* time.sleep(3) on a network error, time.sleep(1) on any other exception.
BackOff(r) ==
    IF r.kind = "TelegramNetworkError" THEN 3
    ELSE IF r.kind = "Exception" \/ r.fails # 0 THEN 1 ELSE 0

StartedReceiver == [NoReceiver EXCEPT !.pc = "check"]

\* The test of the loop and, when the stop event is not set, the request of
\* the next poll.
ReceiverCheck ==
    /\ receiver.pc = "check"
    /\ receiver.stop_event \/ receiver.polls < MaxPolls
    /\ receiver' =
         IF receiver.stop_event THEN [receiver EXCEPT !.pc = "exited"]
         ELSE [receiver EXCEPT !.pc = "poll",
                               !.offset = Offset(receiver.last_update_id),
                               !.polls = @ + 1]
    /\ UNCHANGED <<history, last, inbox, client, sender, workers, registry, codec, base>>

\* The rest of the iteration: the answer arrives, every update of the batch
\* is recorded and put on the incoming queue, exceptions are caught and
\* slept on.
PollReturn ==
    \E r \in PollResults :
        /\ receiver.pc = "poll"
        /\ Len(inbox.done) + Len(inbox.queue) + PutCount(r) <= MaxIncoming
        /\ receiver' = [receiver EXCEPT
                           !.pc = AfterPoll(r),
                           !.last_update_id = LastUpdateId(@, r),
                           !.batch = r.batch,
                           !.put = PutCount(r),
                           !.error = IF r.kind = "result" /\ r.fails # 0
                                     THEN "Exception"
                                     ELSE IF r.kind = "result" THEN "none"
                                     ELSE r.kind,
                           !.sleep = BackOff(r)]
        /\ inbox' = [inbox EXCEPT
                        !.queue = PutAll(@, SubSeq(r.batch, 1, PutCount(r))),
                        !.accepted = IF inbox.sentinel THEN @
                                     ELSE @ \o SubSeq(r.batch, 1, PutCount(r))]
        /\ UNCHANGED <<history, last, client, sender, workers, registry, codec, base>>

ReceiverInit ==
    /\ inbox = EmptyInbox("process_commands")
    /\ receiver = StartedReceiver
    /\ Idle({"base", "history", "last", "client", "sender", "workers", "registry", "codec"})

ReceiverNext ==
    \/ ReceiverCheck
    \/ PollReturn
    \/ PutSentinel
    \/ RouterIteration

ReceiverSpec == ReceiverInit /\ [][ReceiverNext]_vars

\* RouterIteration is enabled exactly when the Router loop runs and its
\* queue holds an item: queue.get returns, and the step shortens the queue.
RouterEnabled ==
    /\ inbox.loop = "process_commands"
    /\ inbox.status = "running"
    /\ inbox.queue # <<>>

\* The poll ends within its timeout, and both threads are scheduled.  The
\* third conjunct is WF_vars(RouterIteration) written out, with
\* RouterEnabled for ENABLED <<RouterIteration>>_vars.
ReceiverFairSpec ==
    /\ ReceiverSpec
    /\ WF_vars(ReceiverCheck)
    /\ WF_vars(PollReturn)
    /\ ([]<>(~RouterEnabled) \/ []<><<RouterIteration>>_vars)

-----------------------------------------------------------------------------
(* The @command decorator *)

R_a == <<"/", "a">>
R_b == <<"/", "b">>

\* What a use of the decorator is given: the name (as written, possibly
\* padded with blanks), the arguments of the decorated function after self,
\* kwargs_types (None, or a dict, of which the keys are kept) and asks (None,
\* or the list of the questions).  None has no keys and no items, so that
\* "x or {}" and the truth value of x read the keys and the items alone.
Registrations ==
    [name : {R_a, R_b, <<" ">> \o R_a \o <<" ">>},
     arg_names : {<<>>, <<"x">>, <<"x", "y">>},
     kwargs_types : {[is_none |-> TRUE, keys |-> {}]}
                      \cup [is_none : {FALSE},
                            keys : {{}, {"x"}, {"x", "y"}, {"x", "z"}}],
     asks : {[is_none |-> TRUE, items |-> <<>>]}
                \cup [is_none : {FALSE},
                      items : {<<>>, <<"q1">>, <<"q1", "q2">>}]]

Range(f) == {f[i] : i \in DOMAIN f}

\* Variant of the validation that never compares the number of questions.
Rejects_QuestionsUnchecked(entries, r) ==
    \/ Strip(r.name) \in DOMAIN entries
    \/ r.kwargs_types.keys # {} /\ Range(r.arg_names) # r.kwargs_types.keys

\* The three tests of the decorator that raise ValueError.
Rejects(entries, r) ==
    \/ Strip(r.name) \in DOMAIN entries
    \/ r.kwargs_types.keys # {} /\ Range(r.arg_names) # r.kwargs_types.keys
    \/ r.asks.items # <<>> /\ Len(r.asks.items) # Len(r.arg_names)

\* The entry stored: asks or [], kwargs_types or {}, arg_names.
RegistryEntry(r) ==
    [asks |-> r.asks.items,
     kwargs_types |-> r.kwargs_types.keys,
     arg_names |-> r.arg_names]

\* One use of the decorator on a function.
Register ==
    \E r \in Registrations :
        /\ registry' =
             [entries |-> IF Rejects(registry.entries, r) THEN registry.entries
                          ELSE (Strip(r.name) :> RegistryEntry(r)) @@ registry.entries,
              call |-> [given |-> r,
                        raised |-> Rejects(registry.entries, r)]]
        /\ UNCHANGED <<history, last, inbox, client, sender, receiver, workers, codec, base>>

RegistryInit ==
    Idle({"base", "history", "last", "inbox", "client", "sender", "receiver", "workers",
          "registry", "codec"})

RegistryNext == Register

RegistrySpec == RegistryInit /\ [][RegistryNext]_vars

-----------------------------------------------------------------------------
(* Callback data encoded, then parsed *)

MaxArguments == 2

\* Tokens of the form /\w+: a command, a menu, and two that are neither.
CodecTokens == {S_greet, S_main, S_unknown, <<"/", "g", "_", "1">>}

\* Arguments without semicolon: empty, a word, digits, with a blank, with a
\* colon, and with a newline at either end.
CodecArguments ==
    {<<>>, A_name, A_age, <<"A", " ", "B">>, <<"a", ":", "b">>,
     <<"A", "NL">>, <<"NL", "A">>}

CodecArgumentLists ==
    UNION {[1..n -> CodecArguments] : n \in 0..MaxArguments}

\* The verb, the token and the arguments of a button are chosen.
CodecInit ==
    /\ codec \in [pc : {"input"}, verb : Verbs \cup {"None"},
                  token : CodecTokens, arguments : CodecArgumentLists,
                  data : {NoCodec.data}, parsed : {NoCodec.parsed}]
    /\ Idle({"base", "history", "last", "inbox", "client", "sender", "receiver", "workers",
             "registry"})

\* The callback data of the button is built.
EncodeData ==
    /\ codec.pc = "input"
    /\ codec' = [codec EXCEPT
                    !.pc = "encoded",
                    !.data = Encode(codec.verb, codec.token, codec.arguments)]
    /\ UNCHANGED <<history, last, inbox, client, sender, receiver, workers, registry, base>>

\* parse_command is given the callback data.
ParseData ==
    /\ codec.pc = "encoded"
    /\ codec' = [codec EXCEPT !.pc = "parsed", !.parsed = ParseCommand(codec.data)]
    /\ UNCHANGED <<history, last, inbox, client, sender, receiver, workers, registry, base>>

CodecNext ==
    \/ EncodeData
    \/ ParseData

CodecSpec == CodecInit /\ [][CodecNext]_vars

-----------------------------------------------------------------------------
(* Shorthands of the properties *)

GreetCommand == [value |-> S_greet, parent_enum |-> "Command"]

\* The update processed last is a text other than a help trigger.
IsPlainText ==
    last.update.type = "text" /\ last.update.data \notin {S_help, S_menu}

\* The payloads that carry a declared question.
QuestionPayloads ==
    {Payload(COMMAND_REGISTRY[c].asks[i]) :
        c \in {S_greet}, i \in 1..Len(COMMAND_REGISTRY[S_greet].asks)}

NoQuestionIn(sent) == \A i \in 1..Len(sent) : sent[i] \notin QuestionPayloads

ActiveCount(h, chat_id) == Cardinality(ActiveRows(h, chat_id))

-----------------------------------------------------------------------------
(* C1 *)

\* C1: for /g registered with the questions <<"name?", "age?">> and the
\* coercers name: str, age: int, a chat without active prompt that sends /g
\* as text gets "name?" and an active prompt at index 0; its next text a0 gets
\* "age?" and the prompt at index 1; its next text a1 (the integer string "3")
\* calls the command method exactly once with name = a0 and age = 3, leaves
\* no active prompt for the chat and emits no question.
C1_GreetScenario ==
    LET chat == last.update.chat_id
        text == last.update.data
        now == GetLastActivePrompt(history, chat)
    IN
    /\ (last.update.type = "text" /\ text = S_greet /\ last.before = NonePrompt)
         => /\ last.sent = <<Payload("name?")>>
            /\ now = CurrentPrompt("ask", GreetCommand, <<>>, 0)
            /\ last.calls = <<>>
    /\ (IsPlainText /\ last.before = CurrentPrompt("ask", GreetCommand, <<>>, 0))
         => /\ last.sent = <<Payload("age?")>>
            /\ now = CurrentPrompt("ask", GreetCommand, <<text>>, 1)
            /\ last.calls = <<>>
    /\ (IsPlainText /\ text = A_age /\ last.before.action = "ask"
        /\ last.before.command = GreetCommand
        /\ Len(last.before.arguments) = 1 /\ last.before.current_prompt_index = 1)
         => /\ Len(last.calls) = 1
            /\ last.calls[1].action = "greet"
            /\ last.calls[1].kwargs =
                 << [name |-> "name", type |-> "str",
                     str |-> last.before.arguments[1], int |-> 0],
                    [name |-> "age", type |-> "int", str |-> <<>>, int |-> 3] >>
            /\ ActiveRows(history, chat) = {}
            /\ NoQuestionIn(last.sent)

\* The third step of the scenario has happened with a0 = "A" and a1 = "3".
C1_Witness ==
    /\ IsPlainText /\ last.update.data = A_age
    /\ last.before = CurrentPrompt("ask", GreetCommand, <<A_name>>, 1)
    /\ Len(last.calls) = 1
    /\ ActiveRows(history, last.update.chat_id) = {}

-----------------------------------------------------------------------------
(* C2 *)

\* C2: a prompt for a command with N >= 1 questions that is started with
\* k < N arguments (k = 0 by text, k = the decoded arguments of an ask
\* callback) emits the question at index k; each text reply that brings the
\* collected arguments to m < N emits the question at index m, and the reply
\* that brings them to N executes the command with those N arguments.
C2_AsksMissingQuestionsInOrder ==
    LET p == last.prompt
        asks == Asks(p.command.value)
        k == Len(p.arguments)
    IN
    (p.called /\ p.command # NoneEnum /\ Len(asks) >= 1) =>
        /\ (p.action = "ask" /\ k < Len(asks))
             => last.sent = <<Payload(asks[k + 1])>> /\ last.calls = <<>>
        /\ (p.action = "respond" /\ last.path = "reply" /\ k < Len(asks))
             => last.sent = <<Payload(asks[k + 1])>> /\ last.calls = <<>>
        /\ (p.action = "respond" /\ last.path = "reply" /\ k >= Len(asks))
             => /\ last.execute.called
                /\ last.execute.arguments = p.arguments
                /\ k = Len(asks)

-----------------------------------------------------------------------------
(* C3 *)

\* C3 as claimed: every chat has at most one interaction record whose
\* prompt_status is active, also between the steps of a prompt.
C3_AtMostOneActiveRecord ==
    \A chat \in Chats : ActiveCount(history, chat) <= 1

\* C3 amended: a chat may have several active records.  Every step of the
\* router either leaves the table as it is, or inserts exactly one new active
\* record and leaves every earlier record (the chat's earlier active ones
\* included) untouched, or resolves every active record of the chat of the
\* update at once and touches no record of another chat.
C3_InsertNotUpsert ==
    [][ \/ history' = history
        \/ /\ Len(history') = Len(history) + 1
           /\ SubSeq(history', 1, Len(history)) = history
           /\ history'[Len(history')].prompt_status = "active"
           /\ history'[Len(history')].chat_id = last'.update.chat_id
           /\ ActiveCount(history', last'.update.chat_id)
                = ActiveCount(history, last'.update.chat_id) + 1
        \/ /\ Len(history') = Len(history)
           /\ ActiveCount(history', last'.update.chat_id) = 0
           /\ \A i \in DOMAIN history :
                history[i].chat_id # last'.update.chat_id => history'[i] = history[i]
      ]_vars

\* A respond step has asked the next question and the chat now has two
\* active records.
C3_Witness ==
    /\ last.path = "reply"
    /\ last.sent = <<Payload("age?")>>
    /\ ActiveCount(history, last.update.chat_id) = 2

-----------------------------------------------------------------------------
(* C4 *)

\* C4: while the chat's last active prompt has action ask, a text of that
\* chat that is no help trigger is appended whole to the prompt's arguments
\* and handled by the respond path with the prompt's command; it is not
\* dispatched as a command, even when its first token is a registered command.
C4_TextIsNextArgument ==
    LET collected == Append(last.before.arguments, last.update.data)
        now == GetLastActivePrompt(history, last.update.chat_id)
    IN
    (IsPlainText /\ last.before # NonePrompt /\ last.before.action = "ask") =>
        /\ last.path = "reply"
        /\ last.prompt = [called |-> TRUE, action |-> "respond",
                          command |-> last.before.command, arguments |-> collected]
        /\ last.execute.called =>
             /\ last.execute.command = last.before.command
             /\ last.execute.arguments = collected
        /\ now # NonePrompt =>
             /\ now.command = last.before.command
             /\ now.arguments = collected

\* The text /g, a registered command, has been taken as an answer.
C4_Witness ==
    /\ IsPlainText /\ last.update.data = S_greet
    /\ last.before = CurrentPrompt("ask", GreetCommand, <<>>, 0)
    /\ last.prompt.arguments = <<S_greet>>

-----------------------------------------------------------------------------
(* C5 *)

\* The state is the one right after a respond step that found no question
\* remaining.
JustCompleted ==
    /\ last.prompt.called /\ last.prompt.action = "respond"
    /\ last.prompt.command # NoneEnum
    /\ last.before # NonePrompt
    /\ last.before.current_prompt_index + 1 >= Len(Asks(last.prompt.command.value))

\* C5: a respond step that leaves no question remaining resolves the chat's
\* prompt and executes the command with the collected arguments; afterwards
\* the lookup of the chat's last active prompt returns none, and the chat's
\* next text is handled as a help trigger, a command or plain text, not as an
\* argument.
C5_CompletionReturnsToIdle ==
    [][ /\ JustCompleted' =>
            /\ ActiveRows(history', last'.update.chat_id) = {}
            /\ GetLastActivePrompt(history', last'.update.chat_id) = NonePrompt
            /\ last'.execute = [called |-> TRUE, action |-> "None",
                                command |-> last'.prompt.command,
                                arguments |-> last'.prompt.arguments]
        /\ (JustCompleted /\ last'.update.type = "text"
            /\ last'.update.chat_id = last.update.chat_id) =>
            /\ last'.before = NonePrompt
            /\ last'.path \in {"help", "command", "ignored"}
            /\ last'.prompt.called =>
                 last'.prompt.action = "ask" /\ last'.prompt.arguments = <<>>
      ]_vars

\* A respond callback has completed a prompt: the command method has been
\* called and the chat has no active prompt left.
C5_Witness ==
    /\ JustCompleted
    /\ last.update.type = "callback_query"
    /\ Len(last.calls) = 1
    /\ GetLastActivePrompt(history, last.update.chat_id) = NonePrompt

-----------------------------------------------------------------------------
(* C6 *)

\* C6: a record's status goes from active to resolved only in a respond step
\* of its chat that finds no question remaining; no other update changes an
\* existing record, no record is removed, and no record goes from resolved
\* back to active.
C6_OnlyCompletionResolves ==
    [][ /\ Len(history') >= Len(history)
        /\ \A i \in DOMAIN history :
             \/ history'[i] = history[i]
             \/ /\ history[i].prompt_status = "active"
                /\ history'[i] = [history[i] EXCEPT !.prompt_status = "resolved"]
                /\ history[i].chat_id = last'.update.chat_id
                /\ JustCompleted'
      ]_vars

\* A completing respond step has resolved the records of its chat while the
\* other chat keeps an active one.
C6_Witness ==
    /\ JustCompleted
    /\ \E i \in DOMAIN history :
         history[i].chat_id = last.update.chat_id
         /\ history[i].prompt_status = "resolved"
    /\ \E i \in DOMAIN history :
         history[i].chat_id # last.update.chat_id
         /\ history[i].prompt_status = "active"

-----------------------------------------------------------------------------
(* C7 *)

\* The update processed last is a callback whose verb is neither ask nor
\* respond and whose token is a registered command.
IsCommandCallback(update) ==
    /\ update.type = "callback_query"
    /\ MatchPattern(update.data).matched
    /\ MatchPattern(update.data).action \notin {"ask", "respond"}
    /\ MatchPattern(update.data).command_str \in CommandValues

DecodedCommand(update) ==
    [value |-> MatchPattern(update.data).command_str, parent_enum |-> "Command"]

DecodedArguments(update) ==
    IF MatchPattern(update.data).params_str = <<>> THEN <<>>
    ELSE Split(MatchPattern(update.data).params_str, ";")

-----------------------------------------------------------------------------
(* C8 *)

\* The step is a respond action for a chat without active prompt.
RespondWithoutPrompt(l) ==
    l.prompt.called /\ l.prompt.action = "respond" /\ l.before = NonePrompt

\* C8 as claimed: a respond action for a chat that has no active prompt
\* enqueues no payload, invokes no handler and leaves the table unchanged.
C8_RespondWithoutPromptIsSilent ==
    [][ RespondWithoutPrompt(last') =>
          /\ last'.sent = <<>>
          /\ last'.calls = <<>>
          /\ history' = history
      ]_vars

\* C8 amended: a respond action for a chat that has no active prompt invokes
\* no handler and leaves the table unchanged; when its token is a command or
\* a menu it enqueues exactly one payload, the error text "Erreur : Aucun
\* prompt actif.", and when its token is neither the processing of the update
\* raises and nothing is enqueued.
C8_RespondWithoutPromptSendsError ==
    [][ RespondWithoutPrompt(last') =>
          /\ last'.calls = <<>> /\ ~last'.execute.called
          /\ history' = history
          /\ IF last'.prompt.command # NoneEnum
             THEN last'.sent = <<Payload("Erreur : Aucun prompt actif.")>> /\ ~last'.exc
             ELSE last'.sent = <<>> /\ last'.exc
      ]_vars

\* The callback respond:/g:A;3 has been processed for a chat without prompt.
C8_Witness ==
    /\ RespondWithoutPrompt(last)
    /\ last.update.data = Encode("respond", S_greet, <<A_name, A_age>>)
    /\ last.sent # <<>>

-----------------------------------------------------------------------------
(* C9 *)

\* The step is an ask action for a command or menu that declares no question.
AskWithoutQuestions(l) ==
    /\ l.prompt.called /\ l.prompt.action = "ask"
    /\ l.prompt.command # NoneEnum
    /\ Asks(l.prompt.command.value) = <<>>

\* C9 as claimed: an ask action for a command that declares no question
\* returns no message, persists no prompt and does not execute the command.
C9_AskWithoutQuestionsIsNoOp ==
    [][ AskWithoutQuestions(last') =>
          /\ last'.sent = <<>>
          /\ history' = history
          /\ ~last'.execute.called /\ last'.calls = <<>>
      ]_vars

\* C9 amended: an ask action for a command that declares no question persists
\* no prompt and does not execute the command, and it enqueues exactly one
\* payload, the error text "Erreur : Cette commande necessite des arguments.".
C9_AskWithoutQuestionsSendsError ==
    [][ AskWithoutQuestions(last') =>
          /\ last'.sent = <<Payload("Erreur : Cette commande necessite des arguments.")>>
          /\ history' = history
          /\ ~last'.execute.called /\ last'.calls = <<>>
      ]_vars

\* The callback ask:/p has been processed while the chat had a prompt.
C9_Witness ==
    /\ AskWithoutQuestions(last)
    /\ last.update.data = Encode("ask", S_ping, <<>>)
    /\ last.before # NonePrompt

-----------------------------------------------------------------------------
(* C10 *)

\* The callback data is outside the grammar, or its token is neither a
\* command nor a menu.
IsUnresolvableCallback(update) ==
    /\ update.type = "callback_query"
    /\ \/ ~MatchPattern(update.data).matched
       \/ MatchPattern(update.data).command_str \notin CommandValues \cup MenuValues

-----------------------------------------------------------------------------
(* C11 *)

IsPrefix(s, t) == Len(s) <= Len(t) /\ SubSeq(t, 1, Len(s)) = s

\* The worker has survived every update so far, has dequeued the accepted
\* updates in the order they were put, and has dequeued all of them once it
\* has seen the sentinel.
WorkerSurvives ==
    /\ inbox.status # "dead"
    /\ IsPrefix(inbox.done, inbox.accepted)
    /\ inbox.status = "stopped" => inbox.done = inbox.accepted

\* The loop of process_commands survives the updates whose processing raises.
ProcessCommandsSurvives ==
    inbox.loop = "process_commands" => WorkerSurvives

\* C11: if the processing of one update raises, the worker keeps running, and
\* every update put on the incoming queue before the shutdown sentinel is
\* still dequeued and processed, in order.
C11_RouterSurvivesFailures ==
    inbox.raised => WorkerSurvives

-----------------------------------------------------------------------------
(* C12 *)

\* The handler that has the method of a registered command, or 0.
Owner(name) ==
    IF \E i \in 1..Len(Handlers) : COMMAND_REGISTRY[name].action \in Handlers[i].methods
    THEN CHOOSE i \in 1..Len(Handlers) :
             COMMAND_REGISTRY[name].action \in Handlers[i].methods
    ELSE 0

\* The coercer declared for argument k of a registered command.
DeclaredType(name, k) ==
    IF COMMAND_REGISTRY[name].arg_names[k] \in DOMAIN COMMAND_REGISTRY[name].kwargs_types
    THEN COMMAND_REGISTRY[name].kwargs_types[COMMAND_REGISTRY[name].arg_names[k]]
    ELSE "str"

ArityMismatch(name, arguments) ==
    Len(arguments) # Len(COMMAND_REGISTRY[name].arg_names)

RejectedArguments(name, arguments) ==
    IF ArityMismatch(name, arguments) THEN {}
    ELSE {k \in 1..Len(arguments) : CoercionFails(DeclaredType(name, k), arguments[k])}

\* The command executed last is registered, a loaded handler owns it, and its
\* arguments are of the wrong number or one of them is rejected by its coercer.
BadExecution ==
    /\ last.execute.called
    /\ IsRegistered(last.execute.command.value)
    /\ Owner(last.execute.command.value) # 0
    /\ \/ ArityMismatch(last.execute.command.value, last.execute.arguments)
       \/ RejectedArguments(last.execute.command.value, last.execute.arguments) # {}

\* C12: when a command is executed with a number of arguments other than its
\* declared arity, or with an argument its declared coercer rejects, the
\* owning handler returns exactly one diagnostic payload, the bound method is
\* not called whatever it would do, and no exception escapes.
C12_BadArgumentsYieldDiagnostic ==
    LET name == last.execute.command.value
        arguments == last.execute.arguments
        bad == RejectedArguments(name, arguments)
        diagnostic ==
            IF ArityMismatch(name, arguments) THEN ErrArity
            ELSE ErrInvalid(COMMAND_REGISTRY[name].arg_names[
                     CHOOSE k \in bad : \A l \in bad : k <= l])
    IN
    BadExecution =>
        /\ \A hres \in HandlerResults :
             ProcessCommand(Owner(name), last.execute.command, arguments, hres)
               = [resp |-> <<diagnostic>>, calls |-> <<>>, exc |-> FALSE]
        /\ last.calls = <<>>
        /\ ~last.exc
        /\ last.sent = <<diagnostic>>

\* /g has been executed with "A" as its age: the coercer int rejected it.
C12_Witness ==
    /\ BadExecution
    /\ last.execute.command = GreetCommand
    /\ last.execute.arguments = <<A_name, A_name>>
    /\ last.sent = <<ErrInvalid("age")>>

-----------------------------------------------------------------------------
(* C13 *)

\* The command executed last is recognized by no loaded handler: its token is
\* absent from the registry, or no loaded handler has its method.
UnrecognizedExecution ==
    /\ last.execute.called
    /\ \/ ~IsRegistered(last.execute.command.value)
       \/ Owner(last.execute.command.value) = 0

-----------------------------------------------------------------------------
(* C14: client errors *)

\* An HTTP status of 400..499 other than 429.
IsClientError(o) ==
    o.kind = "HTTPError" /\ 400 <= o.status /\ o.status < 500 /\ o.status # 429

\* C14: when an attempt receives an HTTP status of 400..499 other than 429,
\* the call makes exactly that one attempt, sleeps never, and ends with the
\* API error.
C14_ClientErrorFailsAtOnce ==
    (client.attempts # <<>> /\ IsClientError(client.attempts[1]))
        => /\ Len(client.attempts) = 1
           /\ client.sleeps = <<>>
           /\ client.result = "TelegramAPIError"

-----------------------------------------------------------------------------
(* C15: success after recoverable failures *)

\* A failure the call recovers from: HTTP 500 and above, HTTP 429, a
\* connection error or a timeout.
IsRecoverable(o) ==
    \/ o.kind = "HTTPError" /\ (o.status >= 500 \/ o.status = 429)
    \/ o.kind \in {"ConnectionError", "Timeout"}

AllRecoverable(attempts) ==
    \A k \in 1..Len(attempts) : IsRecoverable(attempts[k])

\* C15: as long as the attempts made have failed recoverably and fewer than
\* max_retries were made, the call goes on to the next attempt; an attempt
\* that succeeds is the last one and the call returns its response, so j
\* recoverable failures followed by a success are exactly j + 1 attempts.
C15_SuccessAfterFailuresReturns ==
    /\ (AllRecoverable(client.attempts)
         /\ Len(client.attempts) < client.max_retries)
           => (client.result = "running" /\ client.attempt = Len(client.attempts))
    /\ \A k \in 1..Len(client.attempts) :
           client.attempts[k].kind = "ok"
             => (k = Len(client.attempts) /\ client.result = "returned")
    /\ client.result = "returned"
           => client.attempts[Len(client.attempts)].kind = "ok"

C15_Witness ==
    /\ client.result = "returned"
    /\ Len(client.attempts) = 3
    /\ client.attempts[1].kind = "HTTPError" /\ client.attempts[1].status = 500
    /\ client.attempts[2].kind = "HTTPError" /\ client.attempts[2].status = 429
    /\ client.attempts[2].response = "Mock"

-----------------------------------------------------------------------------
(* C16: the attempts are bounded *)

\* C16: the call never makes more than max_retries attempts; when every
\* attempt failed recoverably the call has ended only after exactly
\* max_retries attempts, with the API error if the last failure was an HTTP
\* error and with the network error otherwise.
C16_AttemptsBounded ==
    /\ Len(client.attempts) <= client.max_retries
    /\ (client.result \notin {"none", "running"} /\ AllRecoverable(client.attempts))
          => /\ Len(client.attempts) = client.max_retries
             /\ client.result =
                  IF client.attempts # <<>>
                     /\ client.attempts[Len(client.attempts)].kind = "HTTPError"
                  THEN "TelegramAPIError" ELSE "TelegramNetworkError"

C16_Witness ==
    /\ client.max_retries = 3
    /\ Len(client.attempts) = 3
    /\ AllRecoverable(client.attempts)
    /\ client.attempts[1].kind = "Timeout"
    /\ client.attempts[3].kind = "HTTPError"
    /\ client.result = "TelegramAPIError"

-----------------------------------------------------------------------------
(* C17: backoff *)

\* C17: the i-th sleep of a call (i from 0) lasts 0.5 * 2^i seconds, that is
\* 2^i half-seconds; there is one sleep after every failed attempt that is
\* followed by another attempt and none after the attempt that ends the
\* call.
C17_ExponentialBackoff ==
    /\ \A i \in 1..Len(client.sleeps) : client.sleeps[i] = 2^(i - 1)
    /\ client.result = "running" => Len(client.sleeps) = Len(client.attempts)
    /\ (client.result \notin {"none", "running"} /\ client.attempts # <<>>)
          => Len(client.sleeps) = Len(client.attempts) - 1

C17_Witness ==
    /\ client.max_retries = 4
    /\ client.sleeps = <<1, 2, 4>>
    /\ Len(client.attempts) = 4
    /\ client.result = "TelegramNetworkError"

-----------------------------------------------------------------------------
(* C18: only valid payloads are queued *)

\* A payload with a non-empty text or a non-empty markup.
HasContent(message) ==
    message.text \notin {"None", ""} \/ message.reply_markup \notin {"None", ""}

\* C18: every call of send_message appends to the outgoing queue the
\* payloads of the call that have a non-empty text or a non-empty markup, in
\* the order given, and nothing else, so a payload with both empty leaves
\* the queue unchanged; the queue holds only payloads with content.
C18_OnlyValidQueued ==
    [][/\ sender'.call # <<>>
           => sender'.queue = sender.queue \o SelectSeq(sender'.call, HasContent)
       /\ \A i \in 1..Len(sender'.queue) : HasContent(sender'.queue[i])]_vars

C18_Witness ==
    /\ sender.call = <<[text |-> "", reply_markup |-> "kb"],
                       [text |-> "", reply_markup |-> "None"]>>
    /\ sender.queue = <<[text |-> "a", reply_markup |-> "None"],
                        [text |-> "", reply_markup |-> "kb"]>>

-----------------------------------------------------------------------------
(* C19: flush on stop *)

Count(message, messages) ==
    Len(SelectSeq(messages, LAMBDA m : m = message))

\* The payloads passed to the client since stop was called.
PassedSinceStop == SubSeq(sender.passed, sender.mark + 1, Len(sender.passed))

\* C19: when MessageSender.stop has returned, every payload that was in the
\* outgoing queue when it was called has been passed to the client's send,
\* and the queue is empty.
C19_StopFlushesQueue ==
    sender.stop = "returned"
        => /\ \A m \in Messages :
                  Count(m, sender.at_stop) <= Count(m, PassedSinceStop)
           /\ sender.queue = <<>>

-----------------------------------------------------------------------------
(* C20: service shutdown *)

\* C20: when TelegramService.stop has returned, every payload accepted into
\* the outgoing queue has been passed to the client's send.
C20_NothingUnsentAfterStop ==
    sender.service = "returned"
        => \A m \in Messages : Count(m, sender.accepted) = Count(m, sender.passed)

-----------------------------------------------------------------------------
(* C21: at most one delivery attempt *)

\* C21: a payload accepted by send_message is in the outgoing queue, in the
\* hands of the worker, or has been passed to the client, never two of these
\* at once and none of them twice: every payload is passed to the client at
\* most as often as it was accepted, whoever drains the queue, and the queue
\* grows only by a call of send_message.
C21_AtMostOnce ==
    [][/\ \A m \in Messages :
             Count(m, sender'.queue) + Count(m, sender'.worker.message)
               + Count(m, sender'.passed) <= Count(m, sender'.accepted)
       /\ Len(sender'.queue) > Len(sender.queue) => sender'.call # <<>>]_vars

\* Stop was called with one payload queued and another in the hands of the
\* worker; both drains ran and each payload was passed once.
C21_Witness ==
    /\ sender.stop = "returned"
    /\ Len(sender.accepted) = 2
    /\ Len(sender.at_stop) = 1
    /\ sender.mark = 0
    /\ Len(sender.passed) = 2

-----------------------------------------------------------------------------
(* C22: start is idempotent *)

LiveWorkers(c) ==
    Cardinality({i \in 1..Len(workers.of[c].threads) :
                    workers.of[c].threads[i] = "alive"})

\* C22: a start of a component whose worker is alive spawns no thread, and
\* whatever starts and stops were called, no component has more than one
\* live worker thread.
C22_AtMostOneWorker ==
    [][/\ \A c \in Components :
             (workers'.call.op = "start" /\ workers'.call.component = c
              /\ IsAlive(workers.of[c]))
               => workers'.of[c].threads = workers.of[c].threads
       /\ \A c \in Components :
             Cardinality({i \in 1..Len(workers'.of[c].threads) :
                             workers'.of[c].threads[i] = "alive"}) <= 1]_vars

\* The receiver was started, stopped, started again, and then started once
\* more while its second worker was alive.
C22_Witness ==
    /\ workers.call = [op |-> "start", component |-> "receiver", spawned |-> FALSE]
    /\ workers.of["receiver"].threads = <<"dead", "alive">>
    /\ LiveWorkers("receiver") = 1

-----------------------------------------------------------------------------
(* C23: the offset of the polls *)

\* The step sends the request of a poll.
IsRequest == receiver'.polls = receiver.polls + 1

\* The step ends an iteration of the receiver loop.
IsPollReturn == receiver.pc = "poll" /\ receiver'.pc # "poll"

\* C23: the first poll carries no offset; when a batch has been processed
\* the stored last_update_id is the id of the last update of the batch; and
\* every poll made while an id is stored carries that id plus one.
C23_OffsetFollowsBatch ==
    [][/\ (IsRequest /\ receiver.polls = 0) => receiver'.offset = NoneId
       /\ (IsRequest /\ receiver.last_update_id # NoneId)
             => receiver'.offset = receiver.last_update_id + 1
       /\ (IsRequest /\ receiver.last_update_id = NoneId)
             => receiver'.offset = NoneId
       /\ (IsPollReturn /\ receiver'.error = "none" /\ receiver'.batch # <<>>)
             => receiver'.last_update_id
                  = receiver'.batch[Len(receiver'.batch)].update_id]_vars

\* The batch of the updates 5 and 6 was processed and the next request
\* carries the offset 7.
C23_Witness ==
    /\ receiver.pc = "poll"
    /\ receiver.polls = 2
    /\ receiver.batch = SubSeq(Stream, 1, 2)
    /\ receiver.error = "none"
    /\ receiver.last_update_id = 6
    /\ receiver.offset = 7

-----------------------------------------------------------------------------
(* C24: last_update_id *)

\* C24 as stated: once set, last_update_id never decreases, whatever the
\* polls return.
C24_LastUpdateIdNeverDecreases ==
    [][receiver.last_update_id # NoneId
         => receiver'.last_update_id >= receiver.last_update_id]_vars

\* C24: last_update_id is written only by an iteration of the receiver
\* loop that reached an update, and is then the id of the last update the
\* iteration reached; so it does not decrease as long as every batch
\* starts above the stored id, and it goes down to the ids of a batch that
\* starts below it.
C24_LastUpdateIdFollowsPolls ==
    [][/\ receiver'.last_update_id # receiver.last_update_id
             => /\ IsPollReturn
                /\ receiver'.batch # <<>>
       /\ (IsPollReturn /\ receiver'.batch # <<>>)
             => receiver'.last_update_id =
                  receiver'.batch[IF receiver'.error = "none"
                                  THEN Len(receiver'.batch)
                                  ELSE receiver'.put + 1].update_id
       /\ (IsPollReturn /\ receiver'.batch # <<>>
            /\ receiver'.batch[1].update_id > receiver.last_update_id)
             => receiver'.last_update_id > receiver.last_update_id]_vars

\* The poll that carried the offset 8 returned the update 5, and the stored
\* id went from 7 down to 5.
C24_Witness ==
    /\ receiver.pc = "check"
    /\ receiver.offset = 8
    /\ receiver.batch = SubSeq(Stream, 1, 1)
    /\ receiver.last_update_id = 5

-----------------------------------------------------------------------------
(* C25: order of processing *)

\* C25: the updates of a batch are put at the end of the incoming queue in
\* the order of the batch; the Router takes one update at a time from the
\* head of the queue, which removes it from the queue; so the updates
\* processed are, in order, the first of the updates put.
C25_ProcessedInApiOrder ==
    [][/\ IsPollReturn
             => inbox'.queue
                  = inbox.queue \o SubSeq(receiver'.batch, 1, receiver'.put)
       /\ inbox'.done # inbox.done
             => /\ inbox.queue # <<>>
                /\ inbox'.done = Append(inbox.done, Head(inbox.queue))
                /\ inbox'.queue = Tail(inbox.queue)
       /\ IsPrefix(inbox'.done, inbox'.accepted)]_vars

\* The updates 5, 6 and 7 came in more than one batch and were processed
\* in that order.
C25_Witness ==
    /\ inbox.done = SubSeq(Stream, 1, 3)
    /\ receiver.polls >= 2
    /\ receiver.batch = SubSeq(Stream, 3, 3)

-----------------------------------------------------------------------------
(* C26: failures of a poll *)

\* C26: no iteration of the receiver loop ends the worker, whether
\* get_updates raised the network error or anything else raised; after the
\* network error the stored id and the incoming queue are as before, the
\* worker sleeps 3 seconds and its next request carries the same offset;
\* the worker ends only at a test of its loop that finds the stop event set.
C26_ReceiverSurvivesFailures ==
    [][/\ IsPollReturn => receiver'.pc = "check"
       /\ (IsPollReturn /\ receiver'.error = "TelegramNetworkError")
             => /\ receiver'.last_update_id = receiver.last_update_id
                /\ inbox'.queue = inbox.queue
                /\ receiver'.sleep = 3
       /\ (IsPollReturn /\ receiver'.error = "Exception") => receiver'.sleep = 1
       /\ (IsRequest /\ receiver.error = "TelegramNetworkError")
             => receiver'.offset = receiver.offset
       /\ (receiver'.pc = "exited" /\ receiver.pc # "exited")
             => (receiver.pc = "check" /\ receiver.stop_event)]_vars

\* After a batch that stored the id 6, a poll failed with the network error
\* and the worker polls again with the offset 7.
C26_Witness ==
    /\ receiver.pc = "poll"
    /\ receiver.polls = 3
    /\ receiver.error = "TelegramNetworkError"
    /\ receiver.last_update_id = 6
    /\ receiver.offset = 7

-----------------------------------------------------------------------------
(* C27: shutdown of the receiver and of the Router *)

\* C27: once stop was called the stop event is set and the sentinel is on
\* the incoming queue until the Router takes it; the Router then has
\* processed every update put before the sentinel, and ends; the receiver
\* worker ends at the next test of its loop; both do end.
C27_StopEndsBothLoops ==
    /\ [](inbox.sentinel
            => /\ receiver.stop_event
               /\ \/ inbox.status = "stopped"
                  \/ \E i \in 1..Len(inbox.queue) : inbox.queue[i].type = "None")
    /\ [](inbox.status = "stopped" => inbox.done = inbox.accepted)
    /\ [][(receiver.stop_event /\ receiver.pc = "check"
            /\ receiver'.pc # "check") => receiver'.pc = "exited"]_vars
    /\ (inbox.sentinel ~> (inbox.status = "stopped" /\ receiver.pc = "exited"))

\* Stop was called with updates still queued; the Router processed them and
\* ended, and the receiver worker has ended.
C27_Witness ==
    /\ inbox.status = "stopped"
    /\ receiver.pc = "exited"
    /\ Len(inbox.done) >= 2
    /\ inbox.done = inbox.accepted

-----------------------------------------------------------------------------
(* C28: registrations rejected *)

\* The registration just attempted added one entry under its stripped name
\* and touched no other entry.
AddedOneEntry(before, after, r) ==
    /\ Strip(r.name) \notin DOMAIN before
    /\ DOMAIN after = DOMAIN before \cup {Strip(r.name)}
    /\ \A n \in DOMAIN before : after[n] = before[n]
    /\ after[Strip(r.name)].arg_names = r.arg_names

\* The registrations the statement wants rejected: the keys of the coercers
\* (none when they are omitted) are not the argument names, or the questions
\* (none when they are omitted) are not as many as the arguments.
Mismatch(r) ==
    \/ r.kwargs_types.keys # Range(r.arg_names)
    \/ Len(r.asks.items) # Len(r.arg_names)

\* C28 as stated: a registration is rejected, and the registry left as it
\* was, when its name is registered, its coercer keys are not exactly the
\* argument names or its questions are not as many as its arguments; every
\* other registration adds exactly one entry.
C28_RejectsEveryMismatch ==
    [][IF Strip(registry'.call.given.name) \in DOMAIN registry.entries
          \/ Mismatch(registry'.call.given)
       THEN registry'.call.raised /\ registry'.entries = registry.entries
       ELSE AddedOneEntry(registry.entries, registry'.entries,
                          registry'.call.given)]_vars

\* C28: a registration is rejected, and the registry left as it was, exactly
\* when its stripped name is registered, or it gives coercers whose keys are
\* not the set of the argument names, or it gives questions that are not as
\* many as the arguments; coercers or questions omitted or empty are never
\* compared with the arguments; every registration not rejected adds
\* exactly one entry under its stripped name.
C28_RejectsGivenMismatches ==
    [][/\ registry'.call.raised
            <=> \/ Strip(registry'.call.given.name) \in DOMAIN registry.entries
                \/ /\ registry'.call.given.kwargs_types.keys # {}
                   /\ registry'.call.given.kwargs_types.keys
                        # Range(registry'.call.given.arg_names)
                \/ /\ registry'.call.given.asks.items # <<>>
                   /\ Len(registry'.call.given.asks.items)
                        # Len(registry'.call.given.arg_names)
       /\ registry'.call.raised => registry'.entries = registry.entries
       /\ ~registry'.call.raised
            => AddedOneEntry(registry.entries, registry'.entries,
                             registry'.call.given)]_vars

\* With /b registered, a function of two arguments was registered under /a
\* without coercers and without questions, and a padded " /a " was then
\* rejected.
C28_Witness ==
    /\ DOMAIN registry.entries = {R_a, R_b}
    /\ registry.entries[R_a]
         = [asks |-> <<>>, kwargs_types |-> {}, arg_names |-> <<"x", "y">>]
    /\ registry.call # <<>>
    /\ registry.call.raised
    /\ registry.call.given.name = <<" ">> \o R_a \o <<" ">>
    /\ registry.call.given.kwargs_types.keys = {"x", "y"}
    /\ Len(registry.call.given.asks.items) = 2

-----------------------------------------------------------------------------
(* C29: round trip of the callback data *)

\* What the parse returned as a token: the value of the enum member, and no
\* character when it returned None.
ParsedToken(parsed) ==
    IF parsed.enum = NoneEnum THEN <<>> ELSE parsed.enum.value

-----------------------------------------------------------------------------
(* C30: index at which an ask callback starts the prompt *)

\* The update processed last is an ask callback for a command that declares
\* questions.
IsAskCallback ==
    /\ last.update.type = "callback_query"
    /\ last.prompt.called /\ last.prompt.action = "ask"
    /\ last.prompt.command # NoneEnum
    /\ Asks(last.prompt.command.value) # <<>>

\* What C30 wants of an ask with the decoded arguments when the command
\* declares the questions asks.
StartsAtDecodedIndex(arguments, asks) ==
    IF Len(arguments) >= Len(asks)
    THEN /\ last.execute.called
         /\ last.execute.arguments = arguments
         /\ NoQuestionIn(last.sent)
         /\ ActiveRows(history, last.update.chat_id) = {}
    ELSE /\ GetLastActivePrompt(history, last.update.chat_id)
              = CurrentPrompt("ask", last.prompt.command, arguments, Len(arguments))
         /\ last.sent = <<Payload(asks[Len(arguments) + 1])>>
         /\ ~last.execute.called

\* C30: an ask callback for a command with questions and k decoded arguments
\* leaves the prompt (ask, command, the k arguments, index k); with k at
\* least the number of questions the prompt is resolved and the command
\* executed at once and no question is sent; otherwise the question at index
\* k alone is sent and nothing is executed.
C30_AskStartsAtDecodedIndex ==
    IsAskCallback
        => StartsAtDecodedIndex(last.prompt.arguments,
                                Asks(last.prompt.command.value))

-----------------------------------------------------------------------------
(* C31: index of a respond step *)

\* The update processed last made a respond step that found a prompt and a
\* question remaining.
RespondAsksFurther ==
    /\ last.prompt.called /\ last.prompt.action = "respond"
    /\ last.prompt.command # NoneEnum
    /\ last.before # NonePrompt
    /\ last.before.current_prompt_index + 1 < Len(Asks(last.prompt.command.value))

\* The question sent and the index stored are those at the position k.
AsksQuestionAt(k, asks) ==
    /\ k < Len(asks)
    /\ last.sent = <<Payload(asks[k + 1])>>
    /\ GetLastActivePrompt(history, last.update.chat_id).current_prompt_index = k

\* C31: a respond step that asks a further question sends the question at
\* index len(arguments) and stores that index, whatever the arguments given.
C31_NextIndexIsLenArguments ==
    RespondAsksFurther
        => AsksQuestionAt(Len(last.prompt.arguments),
                          Asks(last.prompt.command.value))

-----------------------------------------------------------------------------
(* C32: a prompt started over another *)

\* The step l asked the first question of a command while the chat had an
\* active prompt.
AskOverActivePrompt(l) ==
    /\ l.prompt.called /\ l.prompt.action = "ask"
    /\ l.prompt.command # NoneEnum
    /\ Asks(l.prompt.command.value) # <<>>
    /\ l.before # NonePrompt

\* C32: an ask step for a chat that has an active prompt leaves the asked
\* command's prompt as the one the lookup returns; every text reply is a
\* respond step for the command of the prompt the lookup returned before it,
\* with that prompt's arguments and the text; what it executes is that
\* command; and once it executed, the chat has no active prompt left, so the
\* superseded command gets no reply.
C32_NewestPromptTakesReplies ==
    [][/\ AskOverActivePrompt(last')
            => GetLastActivePrompt(history', last'.update.chat_id)
                 = CurrentPrompt("ask", last'.prompt.command,
                                 last'.prompt.arguments, 0)
       /\ last'.path = "reply"
            => /\ ActiveRows(history, last'.update.chat_id) # {}
               /\ last'.prompt.command.value
                    = history[MaxOf(ActiveRows(history, last'.update.chat_id))]
                        .content.command
               /\ last'.prompt.command = last'.before.command
               /\ last'.prompt.arguments
                    = Append(last'.before.arguments, last'.update.data)
               /\ last'.execute.called
                    => /\ last'.execute.command = last'.before.command
                       /\ last'.execute.arguments = last'.prompt.arguments
                       /\ ActiveRows(history', last'.update.chat_id) = {}]_vars

\* The chat was asked "name?" for /g, then started /d by callback; its text
\* answered "day?" and /d was executed with it, the record of /g being
\* resolved with no argument.
C32_Witness ==
    /\ Len(history) = 2
    /\ history[1].content.command = S_greet
    /\ history[1].content.arguments = <<>>
    /\ history[1].prompt_status = "resolved"
    /\ history[2].content.command = S_date
    /\ last.path = "reply"
    /\ last.execute.called
    /\ last.execute.command.value = S_date
    /\ last.execute.arguments = <<A_name>>
    /\ Len(last.calls) = 1

-----------------------------------------------------------------------------
(* C33: prompts are per chat *)

\* C33: a step on an update of a chat leaves every record of every other
\* chat as it was, adds records to its own chat only, and leaves the lookup
\* of every other chat as it was; a text taken as a reply is appended to the
\* arguments of the newest active record of its own chat.
C33_PromptStateIsPerChat ==
    [][/\ Len(history') >= Len(history)
       /\ \A i \in DOMAIN history :
            history[i].chat_id # last'.update.chat_id => history'[i] = history[i]
       /\ \A i \in DOMAIN history' :
            i > Len(history) => history'[i].chat_id = last'.update.chat_id
       /\ \A chat \in Chats \ {last'.update.chat_id} :
            GetLastActivePrompt(history', chat) = GetLastActivePrompt(history, chat)
       /\ last'.path = "reply"
            => /\ ActiveRows(history, last'.update.chat_id) # {}
               /\ last'.prompt.arguments
                    = Append(history[MaxOf(ActiveRows(history, last'.update.chat_id))]
                               .content.arguments,
                             last'.update.data)]_vars

\* Chat 1 was asked "name?" and has not answered; chat 2 was asked and its
\* answer went to its own prompt, the record of chat 1 being as it was.
C33_Witness ==
    /\ Len(history) = 3
    /\ history[1] = PromptRow(CurrentPrompt("ask", GreetCommand, <<>>, 0), 1)
    /\ history[3] = PromptRow(CurrentPrompt("ask", GreetCommand, <<A_name>>, 1), 2)
    /\ last.update.chat_id = 2
    /\ last.path = "reply"
    /\ GetLastActivePrompt(history, 1) = CurrentPrompt("ask", GreetCommand, <<>>, 0)

\* ---------------------------------------------------------------------------
\* C34. Each payload the Sender passes to the client's send, from the worker
\* or from the flush, has been recorded as outgoing in the History just
\* before, exactly once: the outgoing records are the payloads passed to
\* send, one for one and in the same order, and a step that passes a payload
\* adds the record of that payload, also when the send then fails.
C34_OutgoingRecordPerSend ==
    /\ [](sender.logged = sender.passed)
    /\ [][/\ Len(sender'.passed) \in {Len(sender.passed), Len(sender.passed) + 1}
          /\ Len(sender'.passed) = Len(sender.passed) + 1
                => sender'.logged
                     = Append(sender.logged, sender'.passed[Len(sender'.passed)])]_vars

\* The flush passed the only accepted payload to send, the send failed and the
\* failure left the flush, and the outgoing record of the payload exists.
C34_Witness ==
    /\ sender.stop = "raised"
    /\ Len(sender.accepted) = 1
    /\ sender.passed = sender.accepted
    /\ sender.logged = sender.accepted

-----------------------------------------------------------------------------
(* C35: the prompt a respond step works on *)

\* The update processed last made a respond step that found an active prompt.
RespondFindsPrompt ==
    /\ last.prompt.called /\ last.prompt.action = "respond"
    /\ last.before # NonePrompt

\* The step went on as the question list of the command c tells: with a
\* question left after the stored index it sent that question, and without
\* one it executed c.
WentOnWith(c) ==
    IF c # NoneEnum /\ last.before.current_prompt_index + 1 < Len(Asks(c.value))
    THEN /\ last.sent = <<Payload(Asks(c.value)[last.before.current_prompt_index + 2])>>
         /\ ~last.execute.called
    ELSE /\ last.execute.called
         /\ last.execute.command = c

\* C35: a respond step that finds an active prompt goes on with the question
\* list of the stored prompt's command and, on completion, executes the
\* stored prompt's command, also when the callback names another token.
C35_RespondUsesStoredCommand ==
    RespondFindsPrompt => WentOnWith(last.before.command)

-----------------------------------------------------------------------------
(* C36: updates acknowledged by the offset *)

\* The updates of the batch processed last that the offset n + 1 of the
\* request under way acknowledges: those with an id up to n.
AcknowledgedOfBatch ==
    {i \in DOMAIN receiver.batch :
        receiver.batch[i].update_id <= receiver.offset - 1}

\* C36: when a poll is under way with an offset, every update of the batch
\* processed before it whose id the offset acknowledges was put on the
\* incoming queue, also when a History write of that batch raised.
C36_AcknowledgedUpdatesWerePut ==
    (receiver.pc = "poll" /\ receiver.offset # NoneId)
        => \A i \in AcknowledgedOfBatch : i <= receiver.put

-----------------------------------------------------------------------------
(* C37: a send that fails during the flush *)

\* C37: whatever a send does during the flush of MessageSender.stop, the
\* flush goes on while the queue holds a payload, it is left only with the
\* queue found empty, and stop then goes to the join of the worker: no
\* failure of a send ends the flush or stop.
C37_FlushSurvivesSendFailure ==
    [][sender.stop = "flush"
         => /\ sender'.stop \in {"flush", "join"}
            /\ sender.queue # <<>> => sender'.stop = "flush"
            /\ sender'.stop = "join" => sender.queue = <<>>]_vars

-----------------------------------------------------------------------------
(* C38: order of the sends *)

\* The sequence s is t with some of its elements left out.
RECURSIVE InOrderOf(_, _)
InOrderOf(s, t) ==
    IF s = <<>> THEN TRUE
    ELSE IF t = <<>> THEN FALSE
    ELSE IF Head(s) = Head(t) THEN InOrderOf(Tail(s), Tail(t))
    ELSE InOrderOf(s, Tail(t))

\* C38: the payloads passed to the client's send are, in their order,
\* payloads in the order in which send_message accepted them, also while
\* the flush of stop drains the queue next to the running worker.
C38_SentInEnqueueOrder == InOrderOf(sender.passed, sender.accepted)

-----------------------------------------------------------------------------
(* BaseService: the threads of the thread-owning base class and its stop *)

\* The polls the receiver thread makes in an exploration.
BaseMaxPolls == 2

\* What the outgoing queue holds: a payload, or the None that stop puts.
QueuedPayload(m) == [is_none |-> FALSE, payload |-> <<m>>]

QueuedNone == [is_none |-> TRUE, payload |-> <<>>]

\* The constructor has started the three threads: the sender and the
\* receiver are inside their while True, the processor inside
\* process_commands.
StartedBase ==
    [NoBase EXCEPT !.sender = [pc |-> "get", message |-> <<>>], !.stop = "idle"]

\* One iteration of _message_receiver: the updates of the answer are put on
\* the incoming queue up to the first whose History write raises; every
\* exception is caught, and the loop has no exit.
BaseReceiverIteration ==
    \E r \in PollResults :
        /\ base.sender.pc # "none"
        /\ base.receiver.polls < BaseMaxPolls
        /\ Len(inbox.done) + Len(inbox.queue) + PutCount(r) <= MaxIncoming
        /\ base' = [base EXCEPT
                       !.receiver = [polls |-> @.polls + 1,
                                     last_update_id |->
                                         LastUpdateId(@.last_update_id, r)]]
        /\ inbox' = [inbox EXCEPT
                        !.queue = PutAll(@, SubSeq(r.batch, 1, PutCount(r))),
                        !.accepted = IF inbox.sentinel THEN @
                                     ELSE @ \o SubSeq(r.batch, 1, PutCount(r))]
        /\ UNCHANGED <<history, last, client, sender, receiver, workers, registry, codec>>

\* process_commands has an update to take: get returns within its timeout.
BaseProcessorEnabled ==
    /\ base.sender.pc # "none"
    /\ inbox.status = "running"
    /\ inbox.queue # <<>>

\* One iteration of process_commands in the processor thread: None ends the
\* loop; the messages of any other update go to the outgoing queue.
BaseProcessCommands ==
    /\ BaseProcessorEnabled
    /\ IF Head(inbox.queue).type = "None"
       THEN /\ inbox' = [inbox EXCEPT !.queue = Tail(@), !.status = "stopped"]
            /\ UNCHANGED <<history, last, base>>
       ELSE \E hres \in (IF Handle(history, Head(inbox.queue), "payload").calls = <<>>
                          THEN {"payload"} ELSE HandlerResults) :
            \E r \in {Handle(history, Head(inbox.queue), hres)} :
                /\ history' = r.hist
                /\ last' = [update |-> Head(inbox.queue),
                            before |-> GetLastActivePrompt(history, Head(inbox.queue).chat_id),
                            path |-> r.path, sent |-> Enqueued(r),
                            calls |-> r.calls, exc |-> r.exc,
                            prompt |-> r.prompt, execute |-> r.execute]
                /\ inbox' = [inbox EXCEPT
                                !.queue = Tail(@),
                                !.done = Append(@, Head(inbox.queue)),
                                !.raised = @ \/ r.exc,
                                !.sent = @ \o Enqueued(r)]
                /\ base' = [base EXCEPT
                               !.outgoing = @ \o [k \in 1..Len(Enqueued(r)) |->
                                                    QueuedPayload(Enqueued(r)[k])]]
    /\ UNCHANGED <<client, sender, receiver, workers, registry, codec>>

\* get(timeout=0.1) of _message_sender returns an item: a None is skipped
\* with continue, a payload is kept for the send.  The loop is while True.
BaseSenderGet ==
    /\ base.sender.pc = "get"
    /\ base.outgoing # <<>>
    /\ base' = [base EXCEPT
                   !.outgoing = Tail(@),
                   !.sender = IF Head(base.outgoing).is_none THEN @
                              ELSE [pc |-> "send",
                                    message |-> Head(base.outgoing).payload]]
    /\ UNCHANGED <<history, last, inbox, client, sender, receiver, workers, registry, codec>>

\* The sender thread records and posts the payload it holds; every exception
\* is caught and the loop goes on.
BaseSenderSend ==
    \E outcome \in SendOutcomes :
        /\ base.sender.pc = "send"
        /\ base' = [base EXCEPT
                       !.sender = [pc |-> "get", message |-> <<>>],
                       !.passed = IF IsValidPayload(base.sender.message[1])
                                     /\ PassedToSend(outcome)
                                  THEN @ \o base.sender.message ELSE @]
        /\ UNCHANGED <<history, last, inbox, client, sender, receiver, workers, registry, codec>>

\* The first statements of BaseService.stop: None is put on the incoming
\* queue and on the outgoing queue, and flush_outgoing_queue is entered.
BaseStop ==
    /\ base.stop = "idle"
    /\ inbox' = [inbox EXCEPT
                    !.queue = Append(@, [type |-> "None", chat_id |-> 0, data |-> <<>>]),
                    !.sentinel = TRUE]
    /\ base' = [base EXCEPT !.outgoing = Append(@, QueuedNone), !.stop = "flush"]
    /\ UNCHANGED <<history, last, client, sender, receiver, workers, registry, codec>>

\* Whether the thread that stop joins next has ended.  The loops of the
\* sender and of the receiver are while True with every exception caught:
\* they have no exit.  The processor ends on the None of the incoming queue.
Joined(stage) ==
    CASE stage = "join sender" -> FALSE
      [] stage = "join receiver" -> FALSE
      [] stage = "join processor" -> inbox.status = "stopped"
      [] OTHER -> FALSE

AfterJoin(stage) ==
    CASE stage = "join sender" -> "join receiver"
      [] stage = "join receiver" -> "join processor"
      [] OTHER -> "returned"

\* What one step of flush_outgoing_queue makes of stop: left with the queue
\* found empty, going on after a None or a payload sent, and ended by the
\* exception of a send, since only queue.Empty is caught.
AfterFlushStep(outgoing, outcome) ==
    IF outgoing = <<>> THEN "join sender"
    ELSE IF ~Head(outgoing).is_none
            /\ IsValidPayload(Head(outgoing).payload[1]) /\ outcome # "sent"
         THEN "raised" ELSE "flush"

\* The rest of BaseService.stop, one step at a time: one test of the loop of
\* flush_outgoing_queue with one iteration when the queue is not empty, then
\* the joins of the sender, the receiver and the processor, without timeout.
BaseStopStep ==
    \E outcome \in SendOutcomes :
        /\ base.stop = "flush" \/ Joined(base.stop)
        /\ base' =
             IF base.stop # "flush"
             THEN [base EXCEPT !.stop = AfterJoin(@)]
             ELSE [base EXCEPT
                      !.stop = AfterFlushStep(base.outgoing, outcome),
                      !.outgoing = IF @ = <<>> THEN @ ELSE Tail(@),
                      !.passed = IF base.outgoing # <<>>
                                    /\ ~Head(base.outgoing).is_none
                                    /\ IsValidPayload(Head(base.outgoing).payload[1])
                                    /\ PassedToSend(outcome)
                                 THEN @ \o Head(base.outgoing).payload ELSE @]
        /\ UNCHANGED <<history, last, inbox, client, sender, receiver, workers, registry, codec>>

BaseInit ==
    /\ history = <<>>
    /\ last = NoUpdate
    /\ inbox = EmptyInbox("process_commands")
    /\ base = StartedBase
    /\ Idle({"client", "sender", "receiver", "workers", "registry", "codec"})

BaseNext ==
    \/ BaseReceiverIteration
    \/ BaseProcessCommands
    \/ BaseSenderGet
    \/ BaseSenderSend
    \/ BaseStop
    \/ BaseStopStep

BaseSpec == BaseInit /\ [][BaseNext]_vars

\* The threads are scheduled: a thread that can take a step takes one.  The
\* conjunct of the processor is WF_vars(BaseProcessCommands) written out.
BaseFairSpec ==
    /\ BaseSpec
    /\ WF_vars(BaseSenderGet)
    /\ WF_vars(BaseSenderSend)
    /\ WF_vars(BaseStopStep)
    /\ ([]<>(~BaseProcessorEnabled) \/ []<><<BaseProcessCommands>>_vars)

-----------------------------------------------------------------------------
(* C39: BaseService.stop terminates *)

\* C39: once stop has put the two None and left the flush with the outgoing
\* queue empty, the three threads end, the joins return and stop returns.
C39_StopReturns == (base.stop = "join sender") ~> (base.stop = "returned")

-----------------------------------------------------------------------------
(* The Router of python_trading_telegram_declarative: its prompts *)

\* A declared question as the handler's table holds it: a string, or a
\* payload dict with the question as its text.
QuestionStr(text) == [is_str |-> TRUE, text |-> text, reply_markup |-> "None"]

QuestionDict(text) == [is_str |-> FALSE, text |-> text, reply_markup |-> "None"]

\* handler.command_actions of the one handler loaded, menu -> command ->
\* details: a command whose questions are strings, one whose question is a
\* payload dict, and one without questions; the first two have a respond
\* handler.
DeclarativeActions ==
    S_greet :> [asks |-> <<QuestionStr("name?"), QuestionStr("age?")>>,
                respond |-> TRUE]
    @@ S_date :> [asks |-> <<QuestionDict("day?")>>, respond |-> TRUE]
    @@ S_ping :> [asks |-> <<>>, respond |-> FALSE]

\* _search_in_handlers: the details of the command, {} when no handler has it.
SearchInHandlers(command) ==
    IF command.value \in DOMAIN DeclarativeActions
    THEN DeclarativeActions[command.value]
    ELSE [asks |-> <<>>, respond |-> FALSE]

\* MessageSender._is_valid_message: `message and any(... message.get(key)
\* ...)`.  An empty string or dict is falsy; a non-empty string has no get.
ValidityOf(message) ==
    IF message.is_str
    THEN (IF message.text = "" THEN "invalid" ELSE "AttributeError")
    ELSE IF IsValidMessage(message) THEN "valid" ELSE "invalid"

\* send_message(message) for one message, which ensure_list wraps: the queue
\* afterwards and whether the call raised.
PutIfValid(q, message) ==
    [queue |-> IF ValidityOf(message) = "valid" THEN Append(q, message) ELSE q,
     exc |-> ValidityOf(message) = "AttributeError"]

\* The step of a prompt that sends the question and then logs the prompt: an
\* exception of send_message leaves before the log.
SendThenLog(h, q, question, prompt, chat_id) ==
    IF PutIfValid(q, question).exc
    THEN [hist |-> h, queue |-> q, exc |-> TRUE, execute |-> NoCall]
    ELSE [hist |-> LogPrompt(h, prompt, chat_id),
          queue |-> PutIfValid(q, question).queue, exc |-> FALSE,
          execute |-> NoCall]

\* _process_interactive_prompt(action, command, arguments, chat_id)
DeclarativeProcessInteractivePrompt(h, q, action, command, arguments, chat_id) ==
    LET details == SearchInHandlers(command)
        current_prompt == GetLastActivePrompt(h, chat_id)
        unchanged == [hist |-> h, queue |-> q, exc |-> FALSE, execute |-> NoCall]
    IN IF action = "ask"
       THEN IF details.asks = <<>> THEN unchanged
            ELSE SendThenLog(h, q, details.asks[1],
                             CurrentPrompt(action, command, arguments, 0), chat_id)
       ELSE IF action # "respond" \/ current_prompt = NonePrompt THEN unchanged
       ELSE IF current_prompt.current_prompt_index + 1 < Len(details.asks)
       THEN SendThenLog(h, q,
                        details.asks[current_prompt.current_prompt_index + 2],
                        CurrentPrompt(current_prompt.action, current_prompt.command,
                                      arguments,
                                      current_prompt.current_prompt_index + 1),
                        chat_id)
       ELSE [hist |-> ResolveActivePrompt(h, chat_id), queue |-> q, exc |-> FALSE,
             execute |-> IF details.respond
                         THEN [called |-> TRUE, action |-> action,
                               command |-> command, arguments |-> arguments]
                         ELSE NoCall]

\* What the step leaves in the variables: the table, the queue, and the
\* record of the step; process_commands catches the exception.
PromptStep(update, action, command, arguments) ==
    \E r \in {DeclarativeProcessInteractivePrompt(history, sender.queue, action,
                                                   command, arguments,
                                                   update.chat_id)} :
        /\ Len(r.hist) <= MaxLog
        /\ history' = r.hist
        /\ sender' = [sender EXCEPT
                         !.queue = r.queue,
                         !.accepted = @ \o SubSeq(r.queue, Len(sender.queue) + 1,
                                                  Len(r.queue))]
        /\ last' = [update |-> update,
                    before |-> GetLastActivePrompt(history, update.chat_id),
                    path |-> "interactive",
                    sent |-> SubSeq(r.queue, Len(sender.queue) + 1, Len(r.queue)),
                    calls |-> <<>>, exc |-> r.exc,
                    prompt |-> [called |-> TRUE, action |-> action,
                                command |-> command, arguments |-> arguments],
                    execute |-> r.execute]

\* _handle_callback_query on data with the verb ask or respond.
DeclarativeCallback ==
    \E chat_id \in Chats, action \in {"ask", "respond"},
       token \in {S_greet, S_date, S_ping}, arguments \in {<<>>, <<A_name>>} :
        /\ PromptStep([type |-> "callback_query", chat_id |-> chat_id,
                       data |-> Encode(action, token, arguments)],
                      action, CommandFromValue(token), arguments)
        /\ UNCHANGED <<inbox, client, receiver, workers, registry, codec, base>>

\* _handle_text_message on a text other than /help while the chat has an
\* active prompt: the text is appended to the arguments of the prompt.
DeclarativeText ==
    \E chat_id \in Chats, text \in {A_name, A_age} :
        /\ GetLastActivePrompt(history, chat_id).action = "ask"
        /\ PromptStep([type |-> "text", chat_id |-> chat_id, data |-> text],
                      "respond", GetLastActivePrompt(history, chat_id).command,
                      Append(GetLastActivePrompt(history, chat_id).arguments, text))
        /\ UNCHANGED <<inbox, client, receiver, workers, registry, codec, base>>

DeclarativeNext ==
    \/ DeclarativeCallback
    \/ DeclarativeText

DeclarativeSpec == Init /\ [][DeclarativeNext]_vars

-----------------------------------------------------------------------------
(* C40: the questions of the declarative Router *)

\* The step asked a question of the command: an ask for a command that
\* declares one, or a respond that found a prompt and a question remaining.
AsksAQuestion ==
    /\ last.prompt.called
    /\ \/ /\ last.prompt.action = "ask"
          /\ SearchInHandlers(last.prompt.command).asks # <<>>
       \/ /\ last.prompt.action = "respond"
          /\ last.before # NonePrompt
          /\ last.before.current_prompt_index + 1
                < Len(SearchInHandlers(last.prompt.command).asks)

\* The index of the question asked.
AskedIndex ==
    IF last.prompt.action = "ask" THEN 0
    ELSE last.before.current_prompt_index + 1

\* C40: a step that asks a question has put that question on the outgoing
\* queue as a valid payload and has stored the active prompt of the chat at
\* the index of the question.
C40_QuestionQueuedAndPromptStored ==
    AsksAQuestion
        => /\ Len(last.sent) = 1
           /\ ~last.sent[1].is_str /\ IsValidMessage(last.sent[1])
           /\ last.sent[1].text
                = SearchInHandlers(last.prompt.command).asks[AskedIndex + 1].text
           /\ GetLastActivePrompt(history, last.update.chat_id)
                .current_prompt_index = AskedIndex
           /\ GetLastActivePrompt(history, last.update.chat_id).arguments
                = last.prompt.arguments
====
